---- MODULE Spec2Model ----
(***************************************************************************)
(* Verification model of the playwright-gis-framework utilities:           *)
(*   - GISWaitStrategies.waitForCondition (utils/gis-wait-strategies.ts),   *)
(*     the polling wait, together with the TestLogger singleton it logs to; *)
(*   - GISValidations.validateCoordinates / validateBounds and              *)
(*     GISCalculations.normalizeLongitude, the coordinate helpers.          *)
(*                                                                         *)
(* Time is a discrete clock `now` (the value of Date.now()).  An async      *)
(* function is modelled by its synchronous segments: one action runs the    *)
(* code from one `await` to the next.  Timers are ideal: the clock moves    *)
(* only when no continuation is ready to run.                               *)
(***************************************************************************)
EXTENDS Integers, Sequences, FiniteSets, TLC

(***************************************************************************)
(* Bounds of the model                                                     *)
(***************************************************************************)
MaxTimeout == 3
MaxInterval == 2
MaxEvalTime == 1
MaxStart == 1
MaxSpin == 4

\* the two waitForCondition invocations that may be in flight together
Calls == {1, 2}

\* options.timeout and options.interval of a lone call
Timeouts == 0..MaxTimeout
Intervals == (-1)..MaxInterval
\* time one evaluation of the predicate may take
EvalTimes == 0..MaxEvalTime
\* options of two calls running concurrently (positive intervals)
ConcTimeouts == {2, 3}
ConcIntervals == {1, 2}

\* what one evaluation of the predicate does: true, false, or throws
PredicateResults == {"true", "false", "throws"}

\* longitudes given to normalizeLongitude: -MaxLongitude..MaxLongitude
MaxLongitude == 1000
MaxOffset == 2
MaxMaxRetries == 3
MaxInitialDelay == 1
MaxDepth == 3
MaxCalls == 2
MaxZoom == 3
MaxTimes == 3
MaxResponses == 8

(***************************************************************************)
(* GIS_CONFIG.COORDINATE_LIMITS (config/constants.ts); degrees              *)
(***************************************************************************)
MIN_LATITUDE == -90
MAX_LATITUDE == 90
MIN_LONGITUDE == -180
MAX_LONGITUDE == 180

\* latitudes and longitudes given to the validations: around the limits
Latitudes ==
  {MIN_LATITUDE - 1, MIN_LATITUDE, MIN_LATITUDE + 1, 0,
   MAX_LATITUDE - 1, MAX_LATITUDE, MAX_LATITUDE + 1}
Longitudes ==
  {MIN_LONGITUDE - 1, MIN_LONGITUDE, MIN_LONGITUDE + 1, 0,
   MAX_LONGITUDE - 1, MAX_LONGITUDE, MAX_LONGITUDE + 1}
\* edges of the boxes given to validateBounds
BoundsLatitudes == {MIN_LATITUDE - 1, MIN_LATITUDE, 10, 20, MAX_LATITUDE, MAX_LATITUDE + 1}
BoundsLongitudes == {MIN_LONGITUDE - 1, MIN_LONGITUDE, 10, 20, MAX_LONGITUDE, MAX_LONGITUDE + 1}

(***************************************************************************)
(* LogLevel (logger.ts)                                                    *)
(***************************************************************************)
DEBUG == 0
INFO == 1
WARN == 2
ERROR == 3
LogLevels == {DEBUG, INFO, WARN, ERROR}

VARIABLES
  now,        \* Date.now()
  pc,         \* pc[c]: position of call c: idle, condition, sleep, done
  timeout,    \* timeout[c]: options.timeout
  interval,   \* interval[c]: options.interval
  startTime,  \* startTime[c]: the local startTime
  wake,       \* wake[c]: when the pending await of c settles
  evals,      \* evals[c]: number of invocations of condition()
  sleeps,     \* sleeps[c]: number of invocations of page.waitForTimeout
  hist,       \* hist[c]: what each settled evaluation of condition() did
  evalTime,   \* evalTime[c]: total time spent inside condition()
  outcome,    \* outcome[c]: none, ok, or the error the call rejected with
  endTime,    \* endTime[c]: the clock when the call settled
  logLevel,   \* TestLogger.logLevel
  logs,       \* TestLogger.logs
  call,       \* the validation called, its arguments and its result
  norm,       \* normalizeLongitude: position, argument and the local lng
  dms,        \* toDMS / fromDMS: the argument, the components, the value back
  dist,       \* calculateDistance: the two points and the two results
  retry,      \* withRetry: position, arguments, locals, counters, result
  handling,   \* withErrorHandling: position, nesting, the outcomes
  enableConsoleOutput,  \* TestLogger.enableConsoleOutput
  console,    \* the entries written to the console by the calls of log
  calls,      \* the calls of log made, in order
  clearedAt,  \* the number of calls of log made before the last clearLogs
  zoom,       \* zoomIn / zoomOut: the map's level, position, locals, result
  service,    \* performCompleteMapTest: position, calls completed, result
  tiles,      \* monitorTileRequests: the counters, the object returned
  compat,     \* legacy and consolidated waitForCondition side by side
  perf,     \* performPerformanceTest: position, the times measured, the result
  project,  \* waitForProjectOperation: position, the button states, the result
  mapState, \* validateMapState: position, the page's map, the result
  click,    \* clickElement / clickElementIfEnabled: position, the element, the result
  layer     \* orchestrateLayerTest: position, the button, the result

waitVars == <<now, pc, timeout, interval, startTime, wake, evals, sleeps,
              hist, evalTime, outcome, endTime>>
logVars == <<logLevel, logs>>
geoVars == <<call, norm>>
dmsVars == <<dms>>
distVars == <<dist>>
retryVars == <<retry>>
handlingVars == <<handling>>
consoleVars == <<enableConsoleOutput, console, calls, clearedAt>>
zoomVars == <<zoom>>
serviceVars == <<service>>
tilesVars == <<tiles>>
compatVars == <<compat>>
moreVars == <<perf, project, mapState, click, layer>>
perfOthers == <<project, mapState, click, layer>>
projectOthers == <<perf, mapState, click, layer>>
mapStateOthers == <<perf, project, click, layer>>
clickOthers == <<perf, project, mapState, layer>>
layerOthers == <<perf, project, mapState, click>>
\* the components of the first sittings
firstVars == <<waitVars, geoVars, dmsVars, distVars, retryVars, handlingVars,
              consoleVars, zoomVars, serviceVars, tilesVars, compatVars>>
\* the state of the other components
extVars == <<dmsVars, distVars, retryVars, handlingVars, consoleVars, zoomVars,
            serviceVars, tilesVars, compatVars, moreVars>>
vars == <<waitVars, logVars, geoVars, extVars>>

(***************************************************************************)
(* TestLogger                                                              *)
(***************************************************************************)
\* a log that also drops an entry at the level in force
LogStrict(lg, level, message) ==
  IF level <= logLevel THEN lg
  ELSE Append(lg, [level |-> level, message |-> message])

\* TestLogger.log: an entry below the level in force is dropped, any other
\* is pushed onto logs
Log(lg, level, message) ==
  IF level < logLevel THEN lg
  ELSE Append(lg, [level |-> level, message |-> message])

\* TestLogger.setLogLevel
SetLogLevel(level) ==
  /\ level # logLevel
  /\ logLevel' = level
  /\ UNCHANGED <<waitVars, logs, geoVars, extVars>>

InitLogger ==
  /\ logLevel = INFO
  /\ logs = <<>>

(***************************************************************************)
(* GISWaitStrategies.waitForCondition                                      *)
(***************************************************************************)
\* the loop test with Date.now() - startTime forgotten: now < timeout
LoopConditionNoStart(t, st, to) == t < to

\* while (Date.now() - startTime < timeout)
LoopCondition(t, st, to) == t - st < to

\* the body without its try/catch, as in the legacy GISHelpers: a throwing
\* predicate rejects the wait
AfterEvaluationNoCatch(r) ==
  IF r = "true" THEN "return" ELSE IF r = "throws" THEN "throw" ELSE "sleep"

\* the test negated: if (!(await condition())) return
AfterEvaluationNegated(r) ==
  IF r = "false" THEN "return" ELSE "sleep"

\* try { if (await condition()) return; } catch { log }: what the loop body
\* does with the result of one evaluation
AfterEvaluation(r) ==
  IF r = "true" THEN "return" ELSE "sleep"

\* the sleep awaited inside the try block: its rejection is swallowed too
AfterSleepSwallowed(ok) == "loop"

\* await page.waitForTimeout(interval) stands outside the try block: its
\* rejection rejects the wait
AfterSleep(ok) == IF ok THEN "loop" ELSE "throw"

\* page.waitForTimeout(interval): a timer of a non-positive delay fires at once
SleepDuration(i) == IF i > 0 THEN i ELSE 0

\* startTime kept in a static field shared by all calls instead of a local
SetStartTimeShared(st, c, t) == [x \in Calls |-> t]

\* const startTime = Date.now(): a local of the call
SetStartTime(st, c, t) == [st EXCEPT ![c] = t]

InitWait ==
  /\ now = 0
  /\ pc = [c \in Calls |-> "idle"]
  /\ timeout = [c \in Calls |-> 0]
  /\ interval = [c \in Calls |-> 0]
  /\ startTime = [c \in Calls |-> 0]
  /\ wake = [c \in Calls |-> 0]
  /\ evals = [c \in Calls |-> 0]
  /\ sleeps = [c \in Calls |-> 0]
  /\ hist = [c \in Calls |-> <<>>]
  /\ evalTime = [c \in Calls |-> 0]
  /\ outcome = [c \in Calls |-> "none"]
  /\ endTime = [c \in Calls |-> 0]

\* One pass through the head of the while loop of call c, whose startTime is
\* st and timeout is to: either condition() is invoked (it settles d later),
\* or the loop ends and TimeoutError is thrown.  A predicate cannot take no
\* time for ever: after MaxSpin evaluations d is positive.
EnterLoop(c, st, to, d) ==
  IF LoopCondition(now, st, to)
  THEN /\ evals[c] >= MaxSpin => d > 0
       /\ pc' = [pc EXCEPT ![c] = "condition"]
       /\ wake' = [wake EXCEPT ![c] = now + d]
       /\ evals' = [evals EXCEPT ![c] = @ + 1]
       /\ evalTime' = [evalTime EXCEPT ![c] = @ + d]
       /\ UNCHANGED <<outcome, endTime>>
  ELSE /\ d = 0
       /\ pc' = [pc EXCEPT ![c] = "done"]
       /\ outcome' = [outcome EXCEPT ![c] = "TimeoutError"]
       /\ endTime' = [endTime EXCEPT ![c] = now]
       /\ UNCHANGED <<wake, evals, evalTime>>

\* The call itself, up to its first await: the options are read, startTime is
\* taken, "Waiting for ..." is logged and the loop is entered.
Call(c, to, i, d) ==
  /\ pc[c] = "idle"
  /\ now <= MaxStart
  /\ timeout' = [timeout EXCEPT ![c] = to]
  /\ interval' = [interval EXCEPT ![c] = i]
  /\ startTime' = SetStartTime(startTime, c, now)
  /\ logs' = Log(logs, DEBUG, <<"Waiting for", c>>)
  /\ EnterLoop(c, startTime'[c], to, d)
  /\ UNCHANGED <<now, sleeps, hist, logLevel, geoVars, extVars>>

\* await condition() settles with r: return, or (after logging a caught
\* error) invoke page.waitForTimeout(interval)
ConditionSettles(c, r) ==
  /\ pc[c] = "condition"
  /\ now >= wake[c]
  /\ hist' = [hist EXCEPT ![c] = Append(@, r)]
  /\ CASE AfterEvaluation(r) = "return" ->
            /\ logs' = Log(logs, DEBUG, <<"met", c>>)
            /\ pc' = [pc EXCEPT ![c] = "done"]
            /\ outcome' = [outcome EXCEPT ![c] = "ok"]
            /\ endTime' = [endTime EXCEPT ![c] = now]
            /\ UNCHANGED <<wake, sleeps>>
       [] AfterEvaluation(r) = "sleep" ->
            /\ logs' = IF r = "throws"
                       THEN Log(logs, DEBUG, <<"Error checking", c>>)
                       ELSE logs
            /\ pc' = [pc EXCEPT ![c] = "sleep"]
            /\ wake' = [wake EXCEPT ![c] = now + SleepDuration(interval[c])]
            /\ sleeps' = [sleeps EXCEPT ![c] = @ + 1]
            /\ UNCHANGED <<outcome, endTime>>
       [] OTHER ->
            /\ pc' = [pc EXCEPT ![c] = "done"]
            /\ outcome' = [outcome EXCEPT ![c] = "PredicateError"]
            /\ endTime' = [endTime EXCEPT ![c] = now]
            /\ UNCHANGED <<logs, wake, sleeps>>
  /\ UNCHANGED <<now, timeout, interval, startTime, evals, evalTime, logLevel,
                 geoVars, extVars>>

\* await page.waitForTimeout(interval) resolves when its timer fires: back to
\* the head of the loop
SleepResolves(c, d) ==
  /\ pc[c] = "sleep"
  /\ now >= wake[c]
  /\ AfterSleep(TRUE) = "loop"
  /\ EnterLoop(c, startTime[c], timeout[c], d)
  /\ UNCHANGED <<now, timeout, interval, startTime, sleeps, hist, logVars,
                 geoVars, extVars>>

\* await page.waitForTimeout(interval) rejects (the page was closed)
SleepRejects(c) ==
  /\ pc[c] = "sleep"
  /\ IF AfterSleep(FALSE) = "loop"
     THEN /\ now >= wake[c]
          /\ EnterLoop(c, startTime[c], timeout[c], 0)
     ELSE /\ pc' = [pc EXCEPT ![c] = "done"]
          /\ outcome' = [outcome EXCEPT ![c] = "SleepError"]
          /\ endTime' = [endTime EXCEPT ![c] = now]
          /\ UNCHANGED <<wake, evals, evalTime>>
  /\ UNCHANGED <<now, timeout, interval, startTime, sleeps, hist, logVars,
                 geoVars, extVars>>

\* a call whose pending await can settle now
Runnable(c) == pc[c] \in {"condition", "sleep"} /\ wake[c] <= now

\* The clock advances while every call in flight waits for a later time.
Tick ==
  /\ \A c \in Calls : ~Runnable(c)
  /\ \/ \E c \in Calls : pc[c] \in {"condition", "sleep"}
     \/ now < MaxStart
  /\ now' = now + 1
  /\ UNCHANGED <<pc, timeout, interval, startTime, wake, evals, sleeps,
                 hist, evalTime, outcome, endTime, logVars, geoVars, extVars>>

(***************************************************************************)
(* GISValidations.validateCoordinates / validateBounds                     *)
(***************************************************************************)
\* the upper limit excluded: lat < MAX_LATITUDE
IsValidLatExclusive(lat) == lat >= MIN_LATITUDE /\ lat < MAX_LATITUDE

\* const isValidLat
IsValidLat(lat) == lat >= MIN_LATITUDE /\ lat <= MAX_LATITUDE

\* const isValidLng
IsValidLng(lng) == lng >= MIN_LONGITUDE /\ lng <= MAX_LONGITUDE

\* the value validateCoordinates returns
ValidateCoordinates(lat, lng) == IsValidLat(lat) /\ IsValidLng(lng)

\* the logger's list after validateCoordinates: a warning for an invalid
\* latitude, then one for an invalid longitude
ValidateCoordinatesLogs(lg, lat, lng) ==
  LET lg1 == IF ~IsValidLat(lat) THEN Log(lg, WARN, <<"Invalid latitude", lat>>)
             ELSE lg
  IN IF ~IsValidLng(lng) THEN Log(lg1, WARN, <<"Invalid longitude", lng>>)
     ELSE lg1

\* the comparisons not strict: north >= south, east >= west
IsValidStructureLoose(b) == b.north >= b.south /\ b.east >= b.west

\* const isValidStructure
IsValidStructure(b) == b.north > b.south /\ b.east > b.west

\* const isValidCoordinates
IsValidCoordinates(b) ==
  ValidateCoordinates(b.north, b.east) /\ ValidateCoordinates(b.south, b.west)

\* the value validateBounds returns
ValidateBounds(b) == IsValidStructure(b) /\ IsValidCoordinates(b)

\* the logger's list after validateBounds: the second validateCoordinates is
\* called only if the first returned true
ValidateBoundsLogs(lg, b) ==
  LET lg1 == ValidateCoordinatesLogs(lg, b.north, b.east)
  IN IF ValidateCoordinates(b.north, b.east)
     THEN ValidateCoordinatesLogs(lg1, b.south, b.west)
     ELSE lg1

\* validateCoordinates(lat, lng) is called
CallValidateCoordinates(lat, lng) ==
  /\ call.op = "none"
  /\ call' = [op |-> "validateCoordinates", lat |-> lat, lng |-> lng,
              result |-> ValidateCoordinates(lat, lng)]
  /\ logs' = ValidateCoordinatesLogs(logs, lat, lng)
  /\ UNCHANGED <<waitVars, logLevel, norm, extVars>>

\* validateBounds(b) is called
CallValidateBounds(b) ==
  /\ call.op = "none"
  /\ call' = [op |-> "validateBounds", bounds |-> b,
              result |-> ValidateBounds(b)]
  /\ logs' = ValidateBoundsLogs(logs, b)
  /\ UNCHANGED <<waitVars, logLevel, norm, extVars>>

(***************************************************************************)
(* GISCalculations.normalizeLongitude                                      *)
(***************************************************************************)
\* the first loop testing against a full turn: while (lng > 360)
AboveRangeFullTurn(lng) == lng > 360

\* while (lng > 180)
AboveRange(lng) == lng > 180

\* while (lng < -180)
BelowRange(lng) == lng < -180

\* normalizeLongitude is called with lng
CallNormalizeLongitude(lng) ==
  /\ norm.pc = "idle"
  /\ norm' = [pc |-> "first", input |-> lng, lng |-> lng]
  /\ UNCHANGED <<waitVars, logVars, call, extVars>>

\* one test of the first loop: lng -= 360, or on to the second loop
NormalizeFirstLoop ==
  /\ norm.pc = "first"
  /\ norm' = IF AboveRange(norm.lng)
             THEN [norm EXCEPT !.lng = @ - 360]
             ELSE [norm EXCEPT !.pc = "second"]
  /\ UNCHANGED <<waitVars, logVars, call, extVars>>

\* one test of the second loop: lng += 360, or return lng
NormalizeSecondLoop ==
  /\ norm.pc = "second"
  /\ norm' = IF BelowRange(norm.lng)
             THEN [norm EXCEPT !.lng = @ + 360]
             ELSE [norm EXCEPT !.pc = "done"]
  /\ UNCHANGED <<waitVars, logVars, call, extVars>>

InitGeo ==
  /\ call = [op |-> "none"]
  /\ norm = [pc |-> "idle", input |-> 0, lng |-> 0]

(***************************************************************************)
(* GISCalculations.toDMS / fromDMS                                         *)
(*                                                                         *)
(* A decimal degree value is an integer number of millionths of a degree.  *)
(* Seconds are an integer number of hundredths, as Math.round(x * 100)/100 *)
(* leaves them.  The value fromDMS returns is an integer number of         *)
(* hundredths of an arc-second (1/360000 of a degree).                     *)
(***************************************************************************)
Unit == 1000 * 1000
PerDegree == 3600 * 100

Abs(x) == IF x < 0 THEN -x ELSE x

\* const dir = isLongitude ? (decimal >= 0 ? 'E' : 'W') : (decimal >= 0 ? 'N' : 'S')
Direction(decimal, isLongitude) ==
  IF isLongitude
    THEN (IF decimal >= 0 THEN "E" ELSE "W")
    ELSE (IF decimal >= 0 THEN "N" ELSE "S")

\* Math.floor((abs - degrees) * 60); `under` is the double product falling
\* just under a whole number of minutes that the exact product reaches
Minutes(f, under) ==
  IF under /\ f > 0 /\ (f * 60) % Unit = 0
    THEN ((f * 60) \div Unit) - 1
    ELSE (f * 60) \div Unit

\* Math.round(((abs - degrees) * 60 - minutes) * 60 * 100), in hundredths;
\* Math.round rounds a half up, and `under` is the double falling just under
\* an exact half
Seconds(f, under) ==
  LET rem == (f * 60) - Minutes(f, under) * Unit
  IN  IF under /\ (rem * 6) % 1000 = 500
        THEN (rem * 6) \div 1000
        ELSE ((rem * 6) + 500) \div 1000

\* the fields of the string toDMS returns
ToDMS(decimal, isLongitude, under) ==
  LET abs == Abs(decimal)
      degrees == abs \div Unit
      f == abs - degrees * Unit
  IN  [degrees |-> degrees,
       minutes |-> Minutes(f, under),
       seconds |-> Seconds(f, under),
       direction |-> Direction(decimal, isLongitude)]

\* fromDMS negating for no letter
FromDMSUnsigned(degrees, minutes, seconds, direction) ==
  degrees * PerDegree + minutes * 6000 + seconds

\* degrees + minutes / 60 + seconds / 3600, negated for 'S' and 'W'
FromDMS(degrees, minutes, seconds, direction) ==
  LET decimal == degrees * PerDegree + minutes * 6000 + seconds
  IN  IF direction = "S" \/ direction = "W" THEN -decimal ELSE decimal

CallToDMS(decimal, isLongitude, under) ==
  /\ dms.pc = "idle"
  /\ dms' = [pc |-> "components", decimal |-> decimal,
             isLongitude |-> isLongitude,
             components |-> ToDMS(decimal, isLongitude, under),
             back |-> 0]
  /\ UNCHANGED <<waitVars, logVars, geoVars, distVars, retryVars, handlingVars,
                 consoleVars, zoomVars, serviceVars,
                 tilesVars,
                 compatVars,
                 moreVars>>

\* the caller feeds the four fields to fromDMS
CallFromDMS ==
  /\ dms.pc = "components"
  /\ dms' = [dms EXCEPT !.pc = "back",
                        !.back = FromDMS(dms.components.degrees,
                                         dms.components.minutes,
                                         dms.components.seconds,
                                         dms.components.direction)]
  /\ UNCHANGED <<waitVars, logVars, geoVars, distVars, retryVars, handlingVars,
                 consoleVars, zoomVars, serviceVars,
                 tilesVars,
                 compatVars,
                 moreVars>>

InitDMS ==
  dms = [pc |-> "idle", decimal |-> 0, isLongitude |-> FALSE,
         components |-> [degrees |-> 0, minutes |-> 0, seconds |-> 0,
                         direction |-> "N"],
         back |-> 0]

(***************************************************************************)
(* GISCalculations.calculateDistance                                       *)
(*                                                                         *)
(* Angles are whole degrees.  A double keeps 53 bits of every result; the   *)
(* model keeps four decimal places: a real x is the integer nearest to      *)
(* x * Scale, and every multiplication rounds its result to the nearest    *)
(* such integer, as the double operation rounds to the nearest double.      *)
(* A result is a record [nan, value], nan being the double NaN.             *)
(***************************************************************************)
EARTH_RADIUS_KM == 6371
Scale == 100 * 100
\* Math.PI
PiScaled == 31416

\* Math.sin of 0, 1, ..., 90 degrees
SinTable ==
  << 0, 175, 349, 523, 698, 872, 1045, 1219, 1392, 1564,
     1736, 1908, 2079, 2250, 2419, 2588, 2756, 2924, 3090, 3256,
     3420, 3584, 3746, 3907, 4067, 4226, 4384, 4540, 4695, 4848,
     5000, 5150, 5299, 5446, 5592, 5736, 5878, 6018, 6157, 6293,
     6428, 6561, 6691, 6820, 6947, 7071, 7193, 7314, 7431, 7547,
     7660, 7771, 7880, 7986, 8090, 8192, 8290, 8387, 8480, 8572,
     8660, 8746, 8829, 8910, 8988, 9063, 9135, 9205, 9272, 9336,
     9397, 9455, 9511, 9563, 9613, 9659, 9703, 9744, 9781, 9816,
     9848, 9877, 9903, 9925, 9945, 9962, 9976, 9986, 9994, 9998,
     10000 >>

\* Math.sin(degreesToRadians(d)) for d in -180..180
Sin(d) ==
  LET m == Abs(d)
      v == IF m <= 90 THEN SinTable[m + 1] ELSE SinTable[(180 - m) + 1]
  IN  IF d < 0 THEN -v ELSE v

\* Math.cos(degreesToRadians(d)) for d in -90..90
Cos(d) == SinTable[(90 - Abs(d)) + 1]

\* the product of two doubles, rounded
Mul(x, y) ==
  LET p == x * y
  IN  IF p >= 0 THEN (2 * p + Scale) \div (2 * Scale)
                ELSE -((2 * (-p) + Scale) \div (2 * Scale))

\* the square root of x * Scale, searched between lo and hi
RECURSIVE SqrtBetween(_, _, _)
SqrtBetween(x, lo, hi) ==
  IF lo >= hi THEN lo
  ELSE LET mid == (lo + hi + 1) \div 2
       IN  IF (2 * mid - 1) * (2 * mid - 1) <= 4 * x * Scale
             THEN SqrtBetween(x, mid, hi)
             ELSE SqrtBetween(x, lo, mid - 1)

\* Math.sqrt: NaN below zero
Sqrt(x) ==
  IF x < 0 THEN [nan |-> TRUE, value |-> 0]
           ELSE [nan |-> FALSE, value |-> SqrtBetween(x, 0, 2 * Scale)]

\* the angle, in whole degrees from d up, whose tangent is y / x (y, x >= 0)
RECURSIVE AtanFrom(_, _, _)
AtanFrom(y, x, d) ==
  IF d >= 90 \/ y * Cos(d) <= x * Sin(d) THEN d ELSE AtanFrom(y, x, d + 1)

\* Math.atan2(y, x) in radians: NaN when an argument is NaN
Atan2(y, x) ==
  IF y.nan \/ x.nan
    THEN [nan |-> TRUE, value |-> 0]
    ELSE [nan |-> FALSE,
          value |-> (AtanFrom(y.value, x.value, 0) * PiScaled) \div 180]

\* const a = sin(dLat / 2) * sin(dLat / 2) +
\*           cos(lat1) * cos(lat2) * sin(dLng / 2) * sin(dLng / 2)
Haversine(lat1, lng1, lat2, lng2) ==
  LET sLat == Sin((lat2 - lat1) \div 2)
      sLng == Sin((lng2 - lng1) \div 2)
  IN  Mul(sLat, sLat) + Mul(Mul(Mul(Cos(lat1), Cos(lat2)), sLng), sLng)

\* R * 2 * Math.atan2(Math.sqrt(a), Math.sqrt(1 - a)), in kilometres
CalculateDistance(lat1, lng1, lat2, lng2) ==
  LET a == Haversine(lat1, lng1, lat2, lng2)
      c == Atan2(Sqrt(a), Sqrt(Scale - a))
  IN  IF c.nan THEN c
      ELSE [nan |-> FALSE, value |-> (EARTH_RADIUS_KM * 2 * c.value) \div Scale]

\* calculateDistance(A, B)
CallCalculateDistance(lat1, lng1, lat2, lng2) ==
  /\ dist.pc = "idle"
  /\ dist' = [pc |-> "forward",
              from |-> [lat |-> lat1, lng |-> lng1],
              to |-> [lat |-> lat2, lng |-> lng2],
              forward |-> CalculateDistance(lat1, lng1, lat2, lng2),
              backward |-> [nan |-> FALSE, value |-> 0]]
  /\ UNCHANGED <<waitVars, logVars, geoVars, dmsVars, retryVars, handlingVars,
                 consoleVars, zoomVars, serviceVars,
                 tilesVars,
                 compatVars,
                 moreVars>>

\* calculateDistance(B, A), of the same two points
CallCalculateDistanceBack ==
  /\ dist.pc = "forward"
  /\ dist' = [dist EXCEPT !.pc = "both",
                          !.backward = CalculateDistance(dist.to.lat, dist.to.lng,
                                                         dist.from.lat, dist.from.lng)]
  /\ UNCHANGED <<waitVars, logVars, geoVars, dmsVars, retryVars, handlingVars,
                 consoleVars, zoomVars, serviceVars,
                 tilesVars,
                 compatVars,
                 moreVars>>

InitDistance ==
  dist = [pc |-> "idle",
          from |-> [lat |-> 0, lng |-> 0], to |-> [lat |-> 0, lng |-> 0],
          forward |-> [nan |-> FALSE, value |-> 0],
          backward |-> [nan |-> FALSE, value |-> 0]]

\* the sample points: even whole degrees, so that half a difference is whole
DistanceLatitudes == {-90, -82, -36, 0, 36, 82, 90}
DistanceLongitudes == {-180, -122, -74, 0, 2, 180}

(***************************************************************************)
(* TestError and ErrorHandler.withRetry (utils/errors.ts)                  *)
(*                                                                         *)
(* An error is a record: its class (TestError with its subclasses, or any   *)
(* other thrown value), its code, its isRetryable flag, its message and     *)
(* the number of the operation call that created it (its identity).         *)
(***************************************************************************)
NoError == [class |-> "none", code |-> "", isRetryable |-> FALSE,
            message |-> <<>>, id |-> 0]

\* new TestError(message, context, code, isRetryable)
TestError(message, code, isRetryable, id) ==
  [class |-> "TestError", code |-> code, isRetryable |-> isRetryable,
   message |-> message, id |-> id]

\* new Error(message), or any thrown value that is no TestError
PlainError(message, id) ==
  [class |-> "Error", code |-> "", isRetryable |-> FALSE,
   message |-> message, id |-> id]

\* what a call of the operation can end with
OperationEnds == {"value", "TimeoutError", "MapLoadError", "Error"}

\* the k-th call of the operation ending with `end`
Settled(end, k) ==
  CASE end = "value" -> [ok |-> TRUE, value |-> k, error |-> NoError]
    [] end = "TimeoutError" ->
         [ok |-> FALSE, value |-> 0,
          error |-> TestError(<<"timeout">>, "TIMEOUT_ERROR", TRUE, k)]
    [] end = "MapLoadError" ->
         [ok |-> FALSE, value |-> 0,
          error |-> TestError(<<"map load">>, "MAP_LOAD_ERROR", FALSE, k)]
    [] OTHER ->
         [ok |-> FALSE, value |-> 0, error |-> PlainError(<<"failure">>, k)]

Returned(v) == [ok |-> TRUE, value |-> v, error |-> NoError]
Thrown(e) == [ok |-> FALSE, value |-> 0, error |-> e]

\* a withRetry that retries whatever the error is
NotRetryableNever(error) == FALSE

\* if (error instanceof TestError && !error.isRetryable) throw error
NotRetryable(error) == error.class = "TestError" /\ ~error.isRetryable

\* a loop that never counts its attempts
NextAttemptSame(attempt) == attempt

\* attempt++
NextAttempt(attempt) == attempt + 1

\* a delay that grows by addition
BackoffLinear(delay, backoffFactor) == delay + backoffFactor

\* delay *= backoffFactor
Backoff(delay, backoffFactor) == delay * backoffFactor

\* ErrorHandler.isRetryable(error)
IsRetryable(error) == error.class = "TestError" /\ error.isRetryable = TRUE

\* throw new TestError('Operation failed after ...', ..., 'MAX_RETRIES_EXCEEDED', false)
MaxRetriesExceeded(maxRetries) ==
  TestError(<<"Operation failed after", maxRetries + 1, "attempts">>,
            "MAX_RETRIES_EXCEEDED", FALSE, 0)

\* the head of the for loop: call the operation, or leave the loop and throw
EnterAttempt(r, attempt) ==
  IF attempt <= r.maxRetries
    THEN [r EXCEPT !.pc = "operation", !.attempt = attempt,
                   !.invocations = @ + 1, !.inFlight = @ + 1]
    ELSE [r EXCEPT !.pc = "done", !.attempt = attempt,
                   !.result = Thrown(MaxRetriesExceeded(r.maxRetries))]

\* withRetry(operation, maxRetries, initialDelay, backoffFactor), to the first
\* await
CallWithRetry(maxRetries, initialDelay, backoffFactor) ==
  /\ retry.pc = "idle"
  /\ retry' = EnterAttempt([retry EXCEPT !.maxRetries = maxRetries,
                                         !.initialDelay = initialDelay,
                                         !.delay = initialDelay,
                                         !.backoffFactor = backoffFactor], 0)
  /\ UNCHANGED <<waitVars, logVars, geoVars, dmsVars, distVars, handlingVars,
                 consoleVars, zoomVars, serviceVars,
                 tilesVars,
                 compatVars,
                 moreVars>>

\* `await operation()` settles: return, rethrow, break, or wait before retrying
RetryOperationSettles(end) ==
  /\ retry.pc = "operation"
  /\ LET o == Settled(end, retry.invocations)
         r == [retry EXCEPT !.inFlight = @ - 1, !.ends = Append(@, end)]
     IN  retry' =
           IF o.ok THEN [r EXCEPT !.pc = "done", !.result = o]
           ELSE IF NotRetryable(o.error)
             THEN [r EXCEPT !.pc = "done", !.lastError = o.error,
                            !.result = Thrown(o.error)]
           ELSE IF r.attempt = r.maxRetries
             THEN [r EXCEPT !.pc = "done", !.lastError = o.error,
                            !.result = Thrown(MaxRetriesExceeded(r.maxRetries))]
           ELSE [r EXCEPT !.pc = "delay", !.lastError = o.error,
                          !.delays = @ + 1, !.waited = @ + r.delay,
                          !.waits = Append(@, r.delay)]
  /\ UNCHANGED <<waitVars, logVars, geoVars, dmsVars, distVars, handlingVars,
                 consoleVars, zoomVars, serviceVars,
                 tilesVars,
                 compatVars,
                 moreVars>>

\* the timer of `await new Promise(resolve => setTimeout(resolve, delay))`
\* fires: delay *= backoffFactor, attempt++, and the head of the loop
RetryTimerFires ==
  /\ retry.pc = "delay"
  /\ retry' = EnterAttempt([retry EXCEPT !.delay = Backoff(@, retry.backoffFactor)],
                           NextAttempt(retry.attempt))
  /\ UNCHANGED <<waitVars, logVars, geoVars, dmsVars, distVars, handlingVars,
                 consoleVars, zoomVars, serviceVars,
                 tilesVars,
                 compatVars,
                 moreVars>>

InitRetry ==
  retry = [pc |-> "idle", maxRetries |-> 0, initialDelay |-> 0, delay |-> 0,
           backoffFactor |-> 0, waits |-> <<>>,
           attempt |-> 0, invocations |-> 0, inFlight |-> 0, ends |-> <<>>,
           delays |-> 0, waited |-> 0, lastError |-> NoError,
           result |-> Returned(0)]

(***************************************************************************)
(* ErrorHandler.withErrorHandling (utils/errors.ts)                        *)
(***************************************************************************)
\* what the wrapped operation can end with: a value, a TestError of a
\* subclass, another Error, or a thrown value that is no Error
HandledEnds ==
  {"value", "TimeoutError", "MapLoadError", "ElementNotFoundError", "Error",
   "string"}

\* the operation ending with `end`
HandledSettled(end) ==
  CASE end = "ElementNotFoundError" ->
         Thrown(TestError(<<"Element not found">>, "ELEMENT_NOT_FOUND", TRUE, 1))
    [] end = "string" -> Thrown(PlainError(<<"thrown string">>, 1))
    [] OTHER -> Settled(end, 1)

\* the errorContext argument of the k-th wrapper, counted from the innermost
ErrorContexts == {"Zoom in map", "Create point layer"}
ErrorContext(innermost, k) == IF k = 1 THEN innermost ELSE "outer"

\* a wrapper converting every failure
WithErrorHandlingAlwaysWraps(o, errorContext, k) ==
  IF o.ok THEN o
  ELSE Thrown(TestError(<<errorContext>> \o o.error.message,
                        "WRAPPED_ERROR", FALSE, -k))

\* try { return await operation() } catch (error) {
\*   if (error instanceof TestError) throw error;
\*   throw new TestError(`${errorContext}: ...`, ..., 'WRAPPED_ERROR', false) }
\* the error the k-th wrapper creates has the identity -k
WithErrorHandling(o, errorContext, k) ==
  IF o.ok THEN o
  ELSE IF o.error.class = "TestError" THEN o
  ELSE Thrown(TestError(<<errorContext>> \o o.error.message,
                        "WRAPPED_ERROR", FALSE, -k))

\* withErrorHandling(() => withErrorHandling(... operation ...)), `depth`
\* wrappers deep: every wrapper calls what it wraps, down to the operation
CallWithErrorHandling(depth, innermost) ==
  /\ handling.pc = "idle"
  /\ handling' = [handling EXCEPT !.pc = "operation", !.depth = depth,
                                  !.pending = depth, !.innermost = innermost]
  /\ UNCHANGED <<waitVars, logVars, geoVars, dmsVars, distVars, retryVars,
                 consoleVars, zoomVars, serviceVars,
                 tilesVars,
                 compatVars,
                 moreVars>>

\* the operation settles
HandledOperationSettles(end) ==
  /\ handling.pc = "operation"
  /\ handling' = [handling EXCEPT !.pc = "unwinding", !.end = end,
                                  !.operation = HandledSettled(end),
                                  !.result = HandledSettled(end)]
  /\ UNCHANGED <<waitVars, logVars, geoVars, dmsVars, distVars, retryVars,
                 consoleVars, zoomVars, serviceVars,
                 tilesVars,
                 compatVars,
                 moreVars>>

\* `await operation()` of the innermost pending wrapper settles
WrapperSettles ==
  /\ handling.pc = "unwinding"
  /\ LET k == (handling.depth - handling.pending) + 1
         o == WithErrorHandling(handling.result,
                                ErrorContext(handling.innermost, k), k)
     IN  handling' = [handling EXCEPT
                        !.pc = IF handling.pending = 1 THEN "done" ELSE "unwinding",
                        !.pending = @ - 1,
                        !.result = o,
                        !.inner = IF k = 1 THEN o ELSE @]
  /\ UNCHANGED <<waitVars, logVars, geoVars, dmsVars, distVars, retryVars,
                 consoleVars, zoomVars, serviceVars,
                 tilesVars,
                 compatVars,
                 moreVars>>

InitHandling ==
  handling = [pc |-> "idle", depth |-> 0, pending |-> 0, innermost |-> "",
              end |-> "", operation |-> Returned(0), result |-> Returned(0),
              inner |-> Returned(0)]

(***************************************************************************)
(* TestLogger: console output, log calls, getLogs, clearLogs (logger.ts)   *)
(*                                                                         *)
(* `calls` is the history of the calls of log: the level asked, the level   *)
(* and the console switch in force at the call; the message of a call is    *)
(* its number.  `clearedAt` is the number of calls made before the last     *)
(* clearLogs.  The console is tracked for these calls only.                 *)
(***************************************************************************)
\* TestLogger.setConsoleOutput
SetConsoleOutput(enabled) ==
  /\ enabled # enableConsoleOutput
  /\ enableConsoleOutput' = enabled
  /\ UNCHANGED <<console, calls, clearedAt>>
  /\ UNCHANGED <<waitVars, logVars, geoVars, dmsVars, distVars, retryVars,
                 handlingVars,
                 zoomVars, serviceVars,
                 tilesVars,
                 compatVars,
                 moreVars>>

\* TestLogger.debug / info / warn / error: log(level, message)
CallLog(level) ==
  /\ Len(calls) < MaxCalls
  /\ LET message == Len(calls) + 1
     IN  /\ calls' = Append(calls, [level |-> level, message |-> message,
                                    inForce |-> logLevel,
                                    console |-> enableConsoleOutput])
         /\ logs' = Log(logs, level, message)
         /\ console' = IF Len(logs') > Len(logs) /\ enableConsoleOutput
                         THEN Append(console, logs'[Len(logs')])
                         ELSE console
  /\ UNCHANGED <<logLevel, enableConsoleOutput, clearedAt>>
  /\ UNCHANGED <<waitVars, geoVars, dmsVars, distVars, retryVars, handlingVars,
                 zoomVars, serviceVars,
                 tilesVars,
                 compatVars,
                 moreVars>>

\* TestLogger.getLogs: a copy of logs
GetLogs == logs

\* TestLogger.clearLogs
ClearLogs ==
  /\ logs # <<>>
  /\ logs' = <<>>
  /\ clearedAt' = Len(calls)
  /\ UNCHANGED <<logLevel, enableConsoleOutput, console, calls>>
  /\ UNCHANGED <<waitVars, geoVars, dmsVars, distVars, retryVars, handlingVars,
                 zoomVars, serviceVars,
                 tilesVars,
                 compatVars,
                 moreVars>>

InitConsole ==
  /\ enableConsoleOutput = TRUE
  /\ console = <<>>
  /\ calls = <<>>
  /\ clearedAt = 0

(***************************************************************************)
(* GISMapPage.zoomIn / zoomOut (pages/gis-map-page.ts) with                 *)
(* GISWaitStrategies.waitForZoomChange and BasePage.clickElement            *)
(*                                                                         *)
(* The page holds the map's zoom level.  A click on a zoom button asks the  *)
(* map for one level more or less; the map applies it later, or not at all  *)
(* at the end of its range.  `direction` is 1 for zoomIn, -1 for zoomOut.   *)
(***************************************************************************)
MinZoom == 0

\* a wait that takes any level for the expected one
ZoomReachedAny(level, expected) == TRUE

\* waitForZoomChange: the page function `currentZoom === expected`
ZoomReached(level, expected) == level = expected

\* getCurrentZoomLevel: map?.getZoom() || 0
GetCurrentZoomLevel(level) == IF level = 0 THEN 0 ELSE level

\* the page has loaded the map at some level
MapLoads(level) ==
  /\ zoom.pc = "unloaded"
  /\ zoom' = [zoom EXCEPT !.pc = "idle", !.level = level]
  /\ UNCHANGED <<waitVars, logVars, geoVars, dmsVars, distVars, retryVars,
                 handlingVars, consoleVars, serviceVars,
                 tilesVars,
                 compatVars,
                 moreVars>>

\* zoomIn(times) / zoomOut(times), to the first await: the head of the loop
CallZoom(direction, times) ==
  /\ zoom.pc = "idle"
  /\ zoom' = [zoom EXCEPT !.pc = IF 0 < times THEN "read" ELSE "done",
                          !.direction = direction, !.times = times,
                          !.i = 0, !.before = zoom.level,
                          !.result = Returned(0)]
  /\ UNCHANGED <<waitVars, logVars, geoVars, dmsVars, distVars, retryVars,
                 handlingVars, consoleVars, serviceVars,
                 tilesVars,
                 compatVars,
                 moreVars>>

\* const initialZoom = await this.getCurrentZoomLevel()
ReadZoom ==
  /\ zoom.pc = "read"
  /\ zoom' = [zoom EXCEPT !.pc = "click",
                          !.initialZoom = GetCurrentZoomLevel(zoom.level)]
  /\ UNCHANGED <<waitVars, logVars, geoVars, dmsVars, distVars, retryVars,
                 handlingVars, consoleVars, serviceVars,
                 tilesVars,
                 compatVars,
                 moreVars>>

\* await this.clickElement(button): the click reaches the map, which will
\* change its level unless it is at the end of its range
ClickZoom ==
  /\ zoom.pc = "click"
  /\ LET target == zoom.level + zoom.requested + zoom.direction
     IN  zoom' = [zoom EXCEPT
                    !.pc = "wait", !.clicks = @ + 1,
                    !.requested = IF target >= MinZoom /\ target <= MaxZoom
                                    THEN @ + zoom.direction ELSE @]
  /\ UNCHANGED <<waitVars, logVars, geoVars, dmsVars, distVars, retryVars,
                 handlingVars, consoleVars, serviceVars,
                 tilesVars,
                 compatVars,
                 moreVars>>

\* the map applies a requested change of level
MapZooms ==
  /\ zoom.requested # 0
  /\ LET step == IF zoom.requested > 0 THEN 1 ELSE -1
     IN  zoom' = [zoom EXCEPT !.level = @ + step, !.requested = @ - step]
  /\ UNCHANGED <<waitVars, logVars, geoVars, dmsVars, distVars, retryVars,
                 handlingVars, consoleVars, serviceVars,
                 tilesVars,
                 compatVars,
                 moreVars>>

\* await waitForZoomChange(page, initialZoom +- 1) resolves; i++ and the head
\* of the loop, or the end of the operation
ZoomObserved ==
  /\ zoom.pc = "wait"
  /\ ZoomReached(zoom.level, zoom.initialZoom + zoom.direction)
  /\ zoom' = [zoom EXCEPT !.i = @ + 1,
                          !.pc = IF zoom.i + 1 < zoom.times THEN "read" ELSE "done"]
  /\ UNCHANGED <<waitVars, logVars, geoVars, dmsVars, distVars, retryVars,
                 handlingVars, consoleVars, serviceVars,
                 tilesVars,
                 compatVars,
                 moreVars>>

\* an await rejects: page.evaluate fails, clickElement throws its TestError,
\* or waitForFunction times out and waitForZoomChange throws TimeoutError;
\* withErrorHandling passes the failure on
ZoomFails ==
  /\ zoom.pc \in {"read", "click", "wait"}
  /\ zoom.pc = "wait" => ~ZoomReached(zoom.level, zoom.initialZoom + zoom.direction)
  /\ LET failure ==
           CASE zoom.pc = "read" -> HandledSettled("Error")
             [] zoom.pc = "click" -> HandledSettled("ElementNotFoundError")
             [] OTHER -> HandledSettled("TimeoutError")
     IN  zoom' = [zoom EXCEPT
                    !.pc = "done",
                    !.result = WithErrorHandling(failure, "Zoom operation", 1)]
  /\ UNCHANGED <<waitVars, logVars, geoVars, dmsVars, distVars, retryVars,
                 handlingVars, consoleVars, serviceVars,
                 tilesVars,
                 compatVars,
                 moreVars>>

InitZoom ==
  zoom = [pc |-> "unloaded", level |-> 0, requested |-> 0, direction |-> 0,
          times |-> 0, i |-> 0, before |-> 0, initialZoom |-> 0, clicks |-> 0,
          result |-> Returned(0)]

(***************************************************************************)
(* GISTestService.performCompleteMapTest (services/gis-test-service.ts)    *)
(*                                                                         *)
(* The body awaits seven calls in a row, which make up its five steps.      *)
(***************************************************************************)
\* the awaited calls, in order, and the step each belongs to
Awaited ==
  << [call |-> "waitForMapReady", step |-> "load"],
     [call |-> "assertMapIsVisible", step |-> "load"],
     [call |-> "assertMapControlsPresent", step |-> "controls"],
     [call |-> "getCurrentZoom", step |-> "zoom"],
     [call |-> "testZoomOperations", step |-> "zoom"],
     [call |-> "getCurrentCenter", step |-> "center"],
     [call |-> "assertValidMapBounds", step |-> "bounds"] >>

\* testsPerformed: ['load', 'controls', 'zoom', 'center', 'bounds']
TestsPerformed == <<"load", "controls", "zoom", "center", "bounds">>

\* what an awaited call can reject with
ServiceEnds == {"TimeoutError", "MapLoadError", "Error"}

\* the centres the page may report
Centers == {[lat |-> 0, lng |-> 0], [lat |-> 37, lng |-> -122],
            [lat |-> 91, lng |-> 0], [lat |-> 45, lng |-> 181]}

\* throw new InvalidCoordinatesError(lat, lng)
InvalidCoordinatesError(lat, lng) ==
  TestError(<<"Invalid coordinates", lat, lng>>, "INVALID_COORDINATES", FALSE, 1)

\* a try block that starts after the map has been verified
InsideTryAfterLoad(k) == k > 2

\* the try block holds every awaited call
InsideTry(k) == k >= 1

\* the catch block: logTestFailure, and the result returned; a failure
\* outside the try block rejects the call
Failed(sv, lg, k, error) ==
  [service |-> [sv EXCEPT
                  !.pc = "done", !.failure = error,
                  !.thrown = ~InsideTry(k),
                  !.success = FALSE,
                  !.message = IF InsideTry(k)
                                THEN <<"Complete map test failed">> \o error.message
                                ELSE <<>>],
   logs |-> IF InsideTry(k)
              THEN Log(lg, ERROR, <<"Test failed", "Complete Map Test">>)
              ELSE lg]

\* performCompleteMapTest(page), to the first await
CallPerformCompleteMapTest ==
  /\ service.pc = "idle"
  /\ service' = [service EXCEPT !.pc = "await", !.at = 1]
  /\ logs' = Log(logs, INFO, <<"Starting test", "Complete Map Test">>)
  /\ UNCHANGED <<waitVars, logLevel, geoVars, dmsVars, distVars, retryVars,
                 handlingVars, consoleVars, zoomVars,
                 tilesVars,
                 compatVars,
                 moreVars>>

\* the awaited call resolves, the page reporting `center` if it is asked:
\* the code runs to the next await, through assertValidCoordinates after
\* getCurrentCenter, or to the return after the last call
ServiceAwaitResolves(center) ==
  /\ service.pc = "await"
  /\ LET k == service.at
         sv == [service EXCEPT !.completed = Append(@, Awaited[k].call)]
     IN  IF Awaited[k].call = "getCurrentCenter"
           THEN IF ValidateCoordinates(center.lat, center.lng)
                  THEN /\ service' = [sv EXCEPT !.at = k + 1]
                       /\ logs' = logs
                  ELSE LET f == Failed(sv,
                                  ValidateCoordinatesLogs(logs, center.lat, center.lng),
                                  k, InvalidCoordinatesError(center.lat, center.lng))
                       IN  service' = f.service /\ logs' = f.logs
         ELSE IF k < Len(Awaited)
           THEN /\ service' = [sv EXCEPT !.at = k + 1]
                /\ logs' = logs
         ELSE /\ service' = [sv EXCEPT !.pc = "done", !.success = TRUE,
                                       !.message = <<"Complete map test passed">>,
                                       !.testsPerformed = TestsPerformed]
              /\ logs' = Log(logs, INFO, <<"Test completed", "Complete Map Test">>)
  /\ UNCHANGED <<waitVars, logLevel, geoVars, dmsVars, distVars, retryVars,
                 handlingVars, consoleVars, zoomVars,
                 tilesVars,
                 compatVars,
                 moreVars>>

\* the awaited call rejects
ServiceAwaitRejects(end) ==
  /\ service.pc = "await"
  /\ LET f == Failed(service, logs, service.at, HandledSettled(end).error)
     IN  service' = f.service /\ logs' = f.logs
  /\ UNCHANGED <<waitVars, logLevel, geoVars, dmsVars, distVars, retryVars,
                 handlingVars, consoleVars, zoomVars,
                 tilesVars,
                 compatVars,
                 moreVars>>

InitService ==
  service = [pc |-> "idle", at |-> 0, completed |-> <<>>, failure |-> NoError,
             thrown |-> FALSE, success |-> FALSE, message |-> <<>>,
             testsPerformed |-> <<>>]

(***************************************************************************)
(* GISHelpers.monitorTileRequests (utils/gis-helpers.ts)                    *)
(*                                                                         *)
(* successCount and failedCount are the locals the response listener       *)
(* increments; `returned` is the object the call returned; `received`      *)
(* counts the responses the page received after the call.                  *)
(***************************************************************************)
\* the URLs of the responses: three that match a tile pattern, one that does not
ResponseUrls == {"/a/1/2.png", "/b/3/4.jpg", "/tiles/5/6", "/api/layers"}
ResponseStatuses == {200, 404, 500}

\* url.includes('.png') || url.includes('.jpg') || url.includes('/tiles/')
IsTileUrl(url) == url \in {"/a/1/2.png", "/b/3/4.jpg", "/tiles/5/6"}

\* monitorTileRequests(page): the listener is registered and an object is
\* built from the present values of the two counters and returned
CallMonitorTileRequests ==
  /\ tiles.pc = "idle"
  /\ tiles' = [tiles EXCEPT !.pc = "monitoring",
                            !.returned = [success |-> tiles.successCount,
                                          failed |-> tiles.failedCount]]
  /\ UNCHANGED <<waitVars, logVars, geoVars, dmsVars, distVars, retryVars,
                 handlingVars, consoleVars, zoomVars, serviceVars,
                 compatVars,
                 moreVars>>

\* the page receives a response: the listener runs
TileResponse(url, status) ==
  /\ tiles.pc = "monitoring"
  /\ tiles.received.ok + tiles.received.other + tiles.received.notTile < MaxResponses
  /\ tiles' =
       IF IsTileUrl(url)
         THEN IF status = 200
                THEN [tiles EXCEPT !.successCount = @ + 1, !.received.ok = @ + 1]
                ELSE [tiles EXCEPT !.failedCount = @ + 1, !.received.other = @ + 1]
         ELSE [tiles EXCEPT !.received.notTile = @ + 1]
  /\ UNCHANGED <<waitVars, logVars, geoVars, dmsVars, distVars, retryVars,
                 handlingVars, consoleVars, zoomVars, serviceVars,
                 compatVars,
                 moreVars>>

InitTiles ==
  tiles = [pc |-> "idle", successCount |-> 0, failedCount |-> 0,
           returned |-> [success |-> 0, failed |-> 0],
           received |-> [ok |-> 0, other |-> 0, notTile |-> 0]]

(***************************************************************************)
(* Legacy GISHelpers.waitForCondition (utils/gis-helpers.ts) beside the     *)
(* consolidated one, which is GISWaitStrategies.waitForCondition           *)
(*                                                                         *)
(* The two are called with the same options and the same predicate: its     *)
(* k-th evaluation gives the same result and takes the same time in both.   *)
(* A run is [pc, outcome, class, evals, t], t the time since the call.      *)
(***************************************************************************)
\* a legacy loop that goes round once more at the timeout
LegacyLoopConditionInclusive(t, st, to) == t - st <= to

\* legacy: while (Date.now() - startTime < timeout)
LegacyLoopCondition(t, st, to) == t - st < to

\* legacy: if (await condition()) return; with no try/catch, so that a
\* throwing predicate rejects the wait
LegacyAfterEvaluation(r) ==
  IF r = "true" THEN "return" ELSE IF r = "throws" THEN "throw" ELSE "sleep"

\* the class of the error thrown at the timeout: legacy `new Error(...)`,
\* consolidated `new TimeoutError(...)`
TimeoutClass(legacy) == IF legacy THEN "Error" ELSE "TimeoutError"

\* the head of the while loop at time t
CompatEnter(legacy, run, t, to) ==
  IF (IF legacy THEN LegacyLoopCondition(t, 0, to) ELSE LoopCondition(t, 0, to))
    THEN [run EXCEPT !.pc = "condition", !.evals = @ + 1, !.t = t]
    ELSE [run EXCEPT !.pc = "done", !.outcome = "timeout",
                     !.class = TimeoutClass(legacy), !.t = t]

\* the evaluation in progress settles with r after d: the rest of the body
CompatSettle(legacy, run, r, d, to, i) ==
  LET next == IF legacy THEN LegacyAfterEvaluation(r) ELSE AfterEvaluation(r)
      t1 == run.t + d
  IN  IF run.pc # "condition" THEN run
      ELSE IF next = "return"
        THEN [run EXCEPT !.pc = "done", !.outcome = "success", !.t = t1]
      ELSE IF next = "throw"
        THEN [run EXCEPT !.pc = "done", !.outcome = "predicate error",
                         !.class = "predicate's", !.t = t1]
      ELSE CompatEnter(legacy, run, t1 + SleepDuration(i), to)

NotStarted == [pc |-> "idle", outcome |-> "none", class |-> "none",
               evals |-> 0, t |-> 0]

\* both are called with { timeout: to, interval: i }
CallBoth(to, i) ==
  /\ compat.pc = "idle"
  /\ compat' = [compat EXCEPT
                  !.pc = "called", !.timeout = to, !.interval = i,
                  !.legacy = CompatEnter(TRUE, NotStarted, 0, to),
                  !.consolidated = CompatEnter(FALSE, NotStarted, 0, to)]
  /\ UNCHANGED <<waitVars, logVars, geoVars, dmsVars, distVars, retryVars,
                 handlingVars, consoleVars, zoomVars, serviceVars, tilesVars,
                 moreVars>>

\* the next evaluation of the predicate gives r after d, in every run that
\* makes it; a predicate cannot take no time for ever
PredicateSettles(r, d) ==
  /\ compat.pc = "called"
  /\ compat.legacy.pc = "condition" \/ compat.consolidated.pc = "condition"
  /\ Len(compat.results) >= MaxSpin => d > 0
  /\ compat' = [compat EXCEPT
                  !.results = Append(@, r),
                  !.legacy = CompatSettle(TRUE, @, r, d, compat.timeout,
                                          compat.interval),
                  !.consolidated = CompatSettle(FALSE, @, r, d, compat.timeout,
                                                compat.interval)]
  /\ UNCHANGED <<waitVars, logVars, geoVars, dmsVars, distVars, retryVars,
                 handlingVars, consoleVars, zoomVars, serviceVars, tilesVars,
                 moreVars>>

InitCompat ==
  compat = [pc |-> "idle", timeout |-> 0, interval |-> 0, results |-> <<>>,
            legacy |-> NotStarted, consolidated |-> NotStarted]

(***************************************************************************)
(* GISTestService.performPerformanceTest and checkPerformanceThresholds    *)
(* (services/gis-test-service.ts)                                          *)
(*                                                                         *)
(* operationTimes is a function from the keys assigned so far to            *)
(* milliseconds.  Every measured time is a difference of two Date.now().    *)
(***************************************************************************)
MAP_LOAD_MAX_MS == 15000
ZOOM_OPERATIONS_MAX_MS == 30000
LAYER_SWITCH_MAX_MS == 25000

\* the times an operation may take: none, and each maximum and just above it
Durations ==
  {0, 1, MAP_LOAD_MAX_MS, MAP_LOAD_MAX_MS + 1, LAYER_SWITCH_MAX_MS,
   LAYER_SWITCH_MAX_MS + 1, ZOOM_OPERATIONS_MAX_MS, ZOOM_OPERATIONS_MAX_MS + 1}

\* a comparison that fails a time equal to its maximum
OverThresholdInclusive(operationTimes, key, max) ==
  /\ key \in DOMAIN operationTimes
  /\ operationTimes[key] # 0
  /\ operationTimes[key] >= max

\* operationTimes.key && operationTimes.key > max: the key is present, its
\* value is not 0, and it is above the maximum
OverThreshold(operationTimes, key, max) ==
  /\ key \in DOMAIN operationTimes
  /\ operationTimes[key] # 0
  /\ operationTimes[key] > max

\* checkPerformanceThresholds(operationTimes)
CheckPerformanceThresholds(operationTimes) ==
  IF OverThreshold(operationTimes, "mapLoad", MAP_LOAD_MAX_MS) THEN FALSE
  ELSE IF OverThreshold(operationTimes, "zoomOperations", ZOOM_OPERATIONS_MAX_MS)
    THEN FALSE
  ELSE IF OverThreshold(operationTimes, "layerSwitching", LAYER_SWITCH_MAX_MS)
    THEN FALSE
  ELSE TRUE

\* operationTimes.key = d
SetTime(operationTimes, key, d) ==
  [k \in DOMAIN operationTimes \cup {key} |->
     IF k = key THEN d ELSE operationTimes[k]]

\* performPerformanceTest(page), to the first await
CallPerformPerformanceTest ==
  /\ perf.pc = "idle"
  /\ perf' = [perf EXCEPT !.pc = "waitForMapReady"]
  /\ logs' = Log(logs, INFO, <<"Performance", "Starting performance test">>)
  /\ UNCHANGED <<logLevel, firstVars, perfOthers>>

\* the awaited call resolves after d (the layer control reported `visible`):
\* the time is stored and the code runs to the next await, or to the return
PerfAwaitResolves(d, visible) ==
  /\ perf.pc \in {"waitForMapReady", "performZoomSequence", "isVisible",
                  "performLayerSwitchSequence", "performPanSequence"}
  /\ perf' =
       CASE perf.pc = "waitForMapReady" ->
              [perf EXCEPT !.pc = "performZoomSequence", !.loadTime = d,
                           !.operationTimes = SetTime(@, "mapLoad", d)]
         [] perf.pc = "performZoomSequence" ->
              [perf EXCEPT !.pc = "isVisible",
                           !.operationTimes = SetTime(@, "zoomOperations", d)]
         [] perf.pc = "isVisible" ->
              [perf EXCEPT !.pc = IF visible THEN "performLayerSwitchSequence"
                                             ELSE "performPanSequence"]
         [] perf.pc = "performLayerSwitchSequence" ->
              [perf EXCEPT !.pc = "performPanSequence",
                           !.operationTimes = SetTime(@, "layerSwitching", d)]
         [] OTHER ->
              LET times == SetTime(perf.operationTimes, "panOperations", d)
              IN  [perf EXCEPT !.pc = "done", !.operationTimes = times,
                               !.thresholdsPassed = CheckPerformanceThresholds(times)]
  /\ logs' = IF perf.pc = "performPanSequence"
               THEN Log(logs, INFO, <<"Performance", "Performance test completed">>)
               ELSE logs
  /\ UNCHANGED <<logLevel, firstVars, perfOthers>>

\* the awaited call rejects: the catch block logs and throws a TestError
PerfAwaitRejects ==
  /\ perf.pc \in {"waitForMapReady", "performZoomSequence", "isVisible",
                  "performLayerSwitchSequence", "performPanSequence"}
  /\ perf' = [perf EXCEPT
                !.pc = "done",
                !.thrown = TestError(<<"Performance test failed">>, "", FALSE, 0)]
  /\ logs' = Log(logs, ERROR, <<"Performance test failed">>)
  /\ UNCHANGED <<logLevel, firstVars, perfOthers>>

InitPerf ==
  perf = [pc |-> "idle", loadTime |-> 0, operationTimes |-> <<>>,
          thresholdsPassed |-> FALSE, thrown |-> NoError]

(***************************************************************************)
(* GISWaitStrategies.waitForProjectOperation, under                        *)
(* GISMapPage.createNewProject and deleteProject                           *)
(***************************************************************************)
\* GIS_CONFIG.TIMEOUTS.PROJECT_CREATION, the default timeout, in ms
PROJECT_CREATION == 5000
\* the time between two polls of waitForFunction, in ms
ProjectTickMs == 2500

ProjectOperations == {"create", "delete"}
LayerButtons == {"Point Layer", "Line Layer"}
ButtonStates == {"absent", "enabled", "disabled"}

\* the predicate waitForFunction polls for 'create': some layer button
\* without the disabled attribute
CreateCompleted(buttons) ==
  \E b \in LayerButtons : buttons[b] = "enabled"

\* the predicate waitForFunction polls for 'delete': there are layer
\* buttons and every one has the disabled attribute
DeleteCompleted(buttons) ==
  /\ \E b \in LayerButtons : buttons[b] # "absent"
  /\ \A b \in LayerButtons : buttons[b] # "absent" => buttons[b] = "disabled"

ProjectCompleted(operation, buttons) ==
  IF operation = "create" THEN CreateCompleted(buttons)
                          ELSE DeleteCompleted(buttons)

\* what page.waitForFunction can end with: the predicate held, the timeout
\* passed, or the page failed it for another reason
WaitForFunctionEnds == {"resolved", "TimeoutError", "Error"}

WaitForProjectOperationRethrows(end) ==
  IF end = "resolved" THEN Returned(0)
  ELSE Thrown(PlainError(<<end>>, 0))

\* the try/catch of waitForProjectOperation: the catch block throws nothing
WaitForProjectOperation(end) ==
  IF end = "resolved" THEN Returned(0)
  ELSE Returned(0)

\* what clickElement can end with
ClickEnds == {"clicked", "ElementNotEnabledError", "TimeoutError"}

ClickEnd(end) ==
  CASE end = "clicked" -> Returned(0)
    [] end = "ElementNotEnabledError" ->
         Thrown(TestError(<<"Element is not enabled">>, "ELEMENT_NOT_ENABLED",
                          FALSE, 0))
    [] OTHER -> Thrown(PlainError(<<end>>, 0))

ProjectContext(operation) ==
  IF operation = "create" THEN "Create new project" ELSE "Delete project"

\* createNewProject() or deleteProject(): up to the await of clickElement
CallProjectOperation(operation) ==
  /\ project.pc = "idle"
  /\ project' = [project EXCEPT !.pc = "clickElement", !.operation = operation]
  /\ UNCHANGED <<logVars, firstVars, projectOthers>>

\* clickElement settles: its error leaves through withErrorHandling, its
\* return enters waitForProjectOperation up to the await of waitForFunction
ProjectClickSettles(end) ==
  /\ project.pc = "clickElement"
  /\ IF end = "clicked"
       THEN /\ project' =
                 [project EXCEPT
                    !.pc = "waitForFunction",
                    !.clicked = TRUE,
                    !.satisfied = ProjectCompleted(project.operation,
                                                   project.buttons)]
            /\ logs' = Log(logs, DEBUG,
                           <<"Waiting for project operation", project.operation>>)
       ELSE /\ project' =
                 [project EXCEPT
                    !.pc = "done",
                    !.result =
                       WithErrorHandling(
                         WithErrorHandling(ClickEnd(end),
                                           "Click element operation", 1),
                         ProjectContext(project.operation), 2)]
            /\ logs' = logs
  /\ UNCHANGED <<logLevel, firstVars, projectOthers>>

\* the application changes a layer button
PageChanges(b, s) ==
  /\ project.pc # "done"
  /\ project.buttons[b] # s
  /\ LET buttons == [project.buttons EXCEPT ![b] = s]
     IN  project' =
           [project EXCEPT
              !.buttons = buttons,
              !.satisfied = @ \/ (/\ project.pc = "waitForFunction"
                                  /\ ProjectCompleted(project.operation, buttons))]
  /\ UNCHANGED <<logVars, firstVars, projectOthers>>

\* time passes while waitForFunction polls
ProjectTick ==
  /\ project.pc = "waitForFunction"
  /\ project.elapsed < PROJECT_CREATION
  /\ project' = [project EXCEPT !.elapsed = @ + ProjectTickMs]
  /\ UNCHANGED <<logVars, firstVars, projectOthers>>

\* waitForFunction settles, waitForProjectOperation logs and returns, and
\* the caller logs the operation and returns through withErrorHandling
WaitForFunctionSettles(end) ==
  /\ project.pc = "waitForFunction"
  /\ end = "resolved" => ProjectCompleted(project.operation, project.buttons)
  /\ end = "TimeoutError" => project.elapsed >= PROJECT_CREATION
  /\ LET waited == WaitForProjectOperation(end)
         after == IF end = "resolved"
                    THEN Log(logs, DEBUG,
                             <<"Project operation completed", project.operation>>)
                    ELSE Log(logs, WARN,
                             <<"Project operation may not have completed as expected",
                               project.operation>>)
     IN  /\ project' =
               [project EXCEPT
                  !.pc = "done",
                  !.waitEnd = end,
                  !.waited = waited,
                  !.result =
                     WithErrorHandling(waited,
                                       ProjectContext(project.operation), 2)]
         /\ logs' = IF waited.ok
                      THEN Log(after, INFO,
                               <<"Project operation", project.operation>>)
                      ELSE after
  /\ UNCHANGED <<logLevel, firstVars, projectOthers>>

\* before any project exists the layer buttons are there and disabled
InitProject ==
  project = [pc |-> "idle", operation |-> "create",
             buttons |-> [b \in LayerButtons |-> "disabled"],
             elapsed |-> 0, clicked |-> FALSE, satisfied |-> FALSE,
             waitEnd |-> "none", waited |-> Returned(0), result |-> Returned(0)]

(***************************************************************************)
(* GISTestService.validateMapState                                         *)
(***************************************************************************)
\* the defaults of validateZoomLevel's minZoom and maxZoom
DefaultMinZoom == 0
DefaultMaxZoom == 20

\* GISValidations.validateZoomLevel(zoom)
ValidateZoomLevel(level) == level >= DefaultMinZoom /\ level <= DefaultMaxZoom

\* what the page can answer to each awaited read
MapZoomLevels == {DefaultMinZoom - 1, DefaultMinZoom, DefaultMaxZoom, DefaultMaxZoom + 1}
MapCenters ==
  {[lat |-> 0, lng |-> 0], [lat |-> MAX_LATITUDE, lng |-> MIN_LONGITUDE],
   [lat |-> MAX_LATITUDE + 1, lng |-> 0], [lat |-> 0, lng |-> MIN_LONGITUDE - 1]}
MapBoundsRead ==
  {[north |-> 20, south |-> 10, east |-> 20, west |-> 10],
   [north |-> 0, south |-> 0, east |-> 0, west |-> 0],
   [north |-> MAX_LATITUDE + 1, south |-> 10, east |-> 20, west |-> 10]}
TileCounts == {0, 1}

MapStateAwaits ==
  <<"mapExists", "getCurrentZoom", "getCurrentCenter", "getCurrentBounds",
    "count", "isAnimating">>

MapStateAnswers(await) ==
  CASE await = "getCurrentZoom" -> MapZoomLevels
    [] await = "getCurrentCenter" -> MapCenters
    [] await = "getCurrentBounds" -> MapBoundsRead
    [] await = "count" -> TileCounts
    [] OTHER -> BOOLEAN

IsValidStrict(errors, warnings) == Len(errors) = 0 /\ Len(warnings) = 0

\* isValid: errors.length === 0
IsValid(errors, warnings) == Len(errors) = 0

\* validateMapState(page): up to the first await
CallValidateMapState ==
  /\ mapState.pc = "idle"
  /\ mapState' = [mapState EXCEPT !.pc = "mapExists"]
  /\ UNCHANGED <<logVars, firstVars, mapStateOthers>>

\* the awaited read resolves with v: the code checks it and runs to the
\* next await, or to a return
MapStateAwaitResolves(v) ==
  /\ mapState.pc \in {MapStateAwaits[k] : k \in 1..Len(MapStateAwaits)}
  /\ mapState' =
       CASE mapState.pc = "mapExists" ->
              IF v
                THEN [mapState EXCEPT !.pc = "getCurrentZoom", !.mapExists = TRUE]
                ELSE LET errors == Append(mapState.errors, "Map instance not found")
                     IN  [mapState EXCEPT !.pc = "done", !.errors = errors,
                                          !.isValid = FALSE]
         [] mapState.pc = "getCurrentZoom" ->
              [mapState EXCEPT
                 !.pc = "getCurrentCenter", !.zoom = v,
                 !.errors = IF ~ValidateZoomLevel(v)
                              THEN Append(@, "Invalid zoom level") ELSE @]
         [] mapState.pc = "getCurrentCenter" ->
              [mapState EXCEPT
                 !.pc = "getCurrentBounds", !.center = v,
                 !.errors = IF ~ValidateCoordinates(v.lat, v.lng)
                              THEN Append(@, "Invalid center coordinates") ELSE @]
         [] mapState.pc = "getCurrentBounds" ->
              [mapState EXCEPT
                 !.pc = "count", !.bounds = v,
                 !.errors = IF ~ValidateBounds(v)
                              THEN Append(@, "Invalid map bounds") ELSE @]
         [] mapState.pc = "count" ->
              [mapState EXCEPT
                 !.pc = "isAnimating", !.tileCount = v,
                 !.warnings = IF v = 0 THEN Append(@, "No tiles found") ELSE @]
         [] OTHER ->
              LET warnings == IF v THEN Append(mapState.warnings,
                                               "Map is currently animating")
                              ELSE mapState.warnings
              IN  [mapState EXCEPT
                     !.pc = "done", !.completed = TRUE, !.warnings = warnings,
                     !.isValid = IsValid(mapState.errors, warnings)]
  /\ logs' =
       CASE mapState.pc = "getCurrentCenter" ->
              ValidateCoordinatesLogs(logs, v.lat, v.lng)
         [] mapState.pc = "getCurrentBounds" -> ValidateBoundsLogs(logs, v)
         [] OTHER -> logs
  /\ UNCHANGED <<logLevel, firstVars, mapStateOthers>>

\* the awaited read rejects: the catch block adds an error and returns
MapStateAwaitRejects ==
  /\ mapState.pc \in {MapStateAwaits[k] : k \in 1..Len(MapStateAwaits)}
  /\ mapState' = [mapState EXCEPT
                    !.pc = "done", !.rejected = mapState.pc,
                    !.errors = Append(@, "Validation error"),
                    !.isValid = FALSE]
  /\ UNCHANGED <<logVars, firstVars, mapStateOthers>>

InitMapState ==
  mapState = [pc |-> "idle", mapExists |-> FALSE, zoom |-> 0,
              center |-> [lat |-> 0, lng |-> 0],
              bounds |-> [north |-> 20, south |-> 10, east |-> 20, west |-> 10],
              tileCount |-> 1, completed |-> FALSE, rejected |-> "none",
              errors |-> <<>>, warnings |-> <<>>, isValid |-> FALSE,
              thrown |-> NoError]

(***************************************************************************)
(* BasePage.clickElement and BasePage.clickElementIfEnabled                *)
(***************************************************************************)
\* how many times the page changes the element during one call
MaxChanges == 4

ClickMethods == {"clickElement", "clickElementIfEnabled"}

\* the awaits of the two methods, in order
ClickAwaits(method) ==
  IF method = "clickElement"
    THEN {"waitForVisible", "waitForAttached", "isEnabled", "textContent", "click"}
    ELSE {"waitForVisible", "isEnabled", "textContent", "click"}

ClickReturned(v) == [ok |-> TRUE, value |-> v, error |-> NoError]

\* new ElementNotEnabledError(elementText)
ElementNotEnabledError ==
  TestError(<<"Element is not enabled">>, "ELEMENT_NOT_ENABLED", FALSE, 0)

ClickContext(method) ==
  IF method = "clickElement" THEN "Click element operation"
  ELSE "Conditional click element operation"

\* clickElement(locator) or clickElementIfEnabled(locator): up to the first
\* await
CallClick(method) ==
  /\ click.pc = "idle"
  /\ click' = [click EXCEPT !.pc = "waitForVisible", !.method = method]
  /\ UNCHANGED <<logVars, firstVars, clickOthers>>

\* the page enables or disables the element, or shows or hides it
ElementChanges(what) ==
  /\ click.pc \notin {"idle", "done"}
  /\ click.changes < MaxChanges
  /\ click' = IF what = "enabled"
                THEN [click EXCEPT !.enabled = ~@, !.changes = @ + 1]
                ELSE [click EXCEPT !.visible = ~@, !.changes = @ + 1]
  /\ UNCHANGED <<logVars, firstVars, clickOthers>>

\* the awaited call resolves and the method runs to its next await, or to
\* its end; waitFor resolves on a visible element; locator.click() resolves
\* when it has clicked, which it does only on a visible and enabled element
ClickAwaitResolves ==
  /\ click.pc \in ClickAwaits(click.method)
  /\ click.pc = "waitForVisible" => click.visible
  /\ click.pc = "click" => click.visible /\ click.enabled
  /\ click' =
       CASE click.pc = "waitForVisible" ->
              [click EXCEPT !.pc = IF click.method = "clickElement"
                                     THEN "waitForAttached" ELSE "isEnabled"]
         [] click.pc = "waitForAttached" -> [click EXCEPT !.pc = "isEnabled"]
         [] click.pc = "isEnabled" ->
              [click EXCEPT !.pc = IF click.enabled THEN "click" ELSE "textContent",
                            !.isEnabled = click.enabled]
         [] click.pc = "textContent" ->
              [click EXCEPT
                 !.pc = "done",
                 !.disabledAtEnd = ~click.enabled,
                 !.result =
                    IF click.method = "clickElement"
                      THEN WithErrorHandling(Thrown(ElementNotEnabledError),
                                             ClickContext(click.method), 1)
                      ELSE ClickReturned("false")]
         [] OTHER ->
              [click EXCEPT
                 !.pc = "done",
                 !.clicked = TRUE,
                 !.clickedDisabled = ~click.enabled,
                 !.result = ClickReturned(IF click.method = "clickElement"
                                            THEN "void" ELSE "true")]
  /\ logs' =
       CASE click.pc = "click" -> Log(logs, DEBUG, <<"Element clicked", click.method>>)
         [] click.pc = "textContent" /\ click.method = "clickElementIfEnabled" ->
              Log(logs, WARN, <<"Element disabled - skipping click">>)
         [] OTHER -> logs
  /\ UNCHANGED <<logLevel, firstVars, clickOthers>>

\* the awaited wait or click rejects with Playwright's TimeoutError, the
\* wait because the element did not become visible in time, the click
\* because it did not become visible and enabled in time
ClickAwaitRejects ==
  /\ click.pc \in {"waitForVisible", "waitForAttached", "click"}
  /\ click.pc = "waitForVisible" => ~click.visible
  /\ click.pc = "click" => ~(click.visible /\ click.enabled)
  /\ click' =
       [click EXCEPT
          !.pc = "done",
          !.disabledAtEnd = (click.pc = "click" /\ ~click.enabled),
          !.result = WithErrorHandling(Thrown(PlainError(<<"TimeoutError">>, 0)),
                                       ClickContext(click.method), 1)]
  /\ UNCHANGED <<logVars, firstVars, clickOthers>>

\* a button of the page, visible and enabled at first
InitClick ==
  click = [pc |-> "idle", method |-> "clickElement", enabled |-> TRUE,
           visible |-> TRUE,
           changes |-> 0, isEnabled |-> FALSE, clicked |-> FALSE,
           clickedDisabled |-> FALSE, disabledAtEnd |-> FALSE,
           result |-> ClickReturned("void")]

(***************************************************************************)
(* GISTestService.orchestrateLayerTest                                     *)
(***************************************************************************)
\* the layer types with a button, and one without
KnownLayerTypes == {"point", "line", "polygon"}
LayerTypes == KnownLayerTypes \cup {"circle"}

\* the awaits of orchestrateLayerTest, in order
LayerAwaits ==
  {"ensureProjectExists", "isEnabled", "click", "waitForMapOperation",
   "isVisible", "testLayerInteractivity"}

\* a disabled button that counts as a created layer
ButtonDisabledCreated(result) ==
  [result EXCEPT !.created = TRUE,
                 !.errors = Append(@, "layer button is disabled")]

\* result.errors.push(`${layerType} layer button is disabled`)
ButtonDisabled(result) ==
  [result EXCEPT !.errors = Append(@, "layer button is disabled")]

\* the catch block: result.errors.push(`Layer test error: ...`)
LayerTestError(result) ==
  [result EXCEPT !.errors = Append(@, "Layer test error")]

\* orchestrateLayerTest(page, layerType): up to the first await
CallOrchestrateLayerTest(layerType) ==
  /\ layer.pc = "idle"
  /\ layer' = [layer EXCEPT !.pc = "ensureProjectExists",
                            !.result.layerType = layerType]
  /\ logs' = Log(logs, INFO, <<"Layer operation", "Starting layer test", layerType>>)
  /\ UNCHANGED <<logLevel, firstVars, layerOthers>>

\* the application enables or disables the layer button
LayerButtonChanges ==
  /\ layer.pc \notin {"idle", "done"}
  /\ layer.changes < MaxChanges
  /\ layer' = [layer EXCEPT !.enabled = ~@, !.changes = @ + 1]
  /\ UNCHANGED <<logVars, firstVars, layerOthers>>

\* the awaited call resolves, isVisible and testLayerInteractivity with v,
\* isEnabled with the state of the button, button.click() only on an enabled
\* button: the code runs to the next await, or returns
LayerAwaitResolves(v) ==
  /\ layer.pc \in LayerAwaits
  /\ layer.pc = "click" => layer.enabled
  /\ LET r == layer.result
         caught == layer.pc = "ensureProjectExists" /\ r.layerType \notin KnownLayerTypes
     IN  /\ layer' =
               CASE layer.pc = "ensureProjectExists" ->
                      IF caught
                        THEN [layer EXCEPT !.pc = "done", !.caught = TRUE,
                                           !.result = LayerTestError(r)]
                        ELSE [layer EXCEPT !.pc = "isEnabled"]
                 [] layer.pc = "isEnabled" ->
                      IF layer.enabled
                        THEN [layer EXCEPT !.pc = "click", !.isEnabled = "true"]
                      ELSE [layer EXCEPT !.pc = "done", !.isEnabled = "false",
                                         !.result = ButtonDisabled(r)]
                 [] layer.pc = "click" ->
                      [layer EXCEPT !.pc = "waitForMapOperation", !.clicked = TRUE,
                                    !.clickedDisabled = ~layer.enabled]
                 [] layer.pc = "waitForMapOperation" ->
                      [layer EXCEPT !.pc = "isVisible", !.waited = TRUE,
                                    !.result.created = TRUE]
                 [] layer.pc = "isVisible" ->
                      IF r.created
                        THEN [layer EXCEPT !.pc = "testLayerInteractivity",
                                           !.result.visible = v]
                        ELSE [layer EXCEPT !.pc = "done", !.result.visible = v]
                 [] OTHER ->
                      [layer EXCEPT !.pc = "done", !.result.interactive = v]
         /\ logs' =
               CASE caught -> Log(logs, ERROR, <<"Layer test failed", r.layerType>>)
                 [] layer.pc = "testLayerInteractivity" ->
                      Log(logs, INFO,
                          <<"Layer operation", "Layer test completed", r.layerType>>)
                 [] OTHER -> logs
  /\ UNCHANGED <<logLevel, firstVars, layerOthers>>

\* the awaited call rejects: the catch block adds an error, logs and returns
\* the result; testLayerInteractivity catches its own errors and rejects never
LayerAwaitRejects ==
  /\ layer.pc \in LayerAwaits \ {"testLayerInteractivity"}
  /\ layer' = [layer EXCEPT !.pc = "done", !.caught = TRUE,
                            !.result = LayerTestError(layer.result)]
  /\ logs' = Log(logs, ERROR, <<"Layer test failed", layer.result.layerType>>)
  /\ UNCHANGED <<logLevel, firstVars, layerOthers>>

\* the layer buttons are disabled until a project exists
InitLayer ==
  layer = [pc |-> "idle", enabled |-> FALSE, changes |-> 0,
           isEnabled |-> "unread", clicked |-> FALSE, clickedDisabled |-> FALSE,
           waited |-> FALSE, caught |-> FALSE, thrown |-> NoError,
           result |-> [layerType |-> "point", created |-> FALSE,
                       visible |-> FALSE, interactive |-> FALSE,
                       errors |-> <<>>]]

\* the whole degrees and the fractions of the sample values: around every
\* whole minute, and some in between
DMSDegrees == {0, 1, 37, 89, 90, 179}
DMSFractions ==
  {f \in {((m * Unit) \div 60) + j : m \in 0..60, j \in (-MaxOffset)..MaxOffset} :
     f >= 0 /\ f < Unit}
  \cup {8333, 123456, 500000}
DMSDecimals ==
  {s * (d * Unit + f) : s \in {-1, 1}, d \in DMSDegrees, f \in DMSFractions}
  \cup {180 * Unit, -180 * Unit}

(***************************************************************************)
(* Specifications                                                          *)
(***************************************************************************)
Init ==
  /\ InitWait
  /\ InitLogger
  /\ InitGeo
  /\ InitDMS
  /\ InitDistance
  /\ InitRetry
  /\ InitHandling
  /\ InitConsole
  /\ InitZoom
  /\ InitService
  /\ InitTiles
  /\ InitCompat
  /\ InitPerf
  /\ InitProject
  /\ InitMapState
  /\ InitClick
  /\ InitLayer

\* the log level is configured while no wait is in flight
Quiescent == \A c \in Calls : pc[c] = "idle"

\* a single waitForCondition call, with every option value
Next ==
  \/ \E to \in Timeouts, i \in Intervals, d \in EvalTimes : Call(1, to, i, d)
  \/ \E r \in PredicateResults : ConditionSettles(1, r)
  \/ \E d \in EvalTimes : SleepResolves(1, d)
  \/ SleepRejects(1)
  \/ Tick
  \/ \E l \in {DEBUG, INFO} : Quiescent /\ SetLogLevel(l)

\* the event loop runs every continuation that is ready, and time passes
Fairness ==
  /\ \A c \in Calls : WF_vars(\E r \in PredicateResults : ConditionSettles(c, r))
  /\ \A c \in Calls : WF_vars(\E d \in EvalTimes : SleepResolves(c, d))
  /\ WF_vars(Tick)

Spec == Init /\ [][Next]_vars /\ Fairness

\* two waitForCondition calls in flight together, their predicates taking
\* negligible time
NextConc ==
  \/ \E c \in Calls, to \in ConcTimeouts, i \in ConcIntervals : Call(c, to, i, 0)
  \/ \E c \in Calls, r \in PredicateResults : ConditionSettles(c, r)
  \/ \E c \in Calls : SleepResolves(c, 0)
  \/ \E c \in Calls : SleepRejects(c)
  \/ Tick
  \/ \E l \in {DEBUG, INFO} : Quiescent /\ SetLogLevel(l)

SpecConc == Init /\ [][NextConc]_vars /\ Fairness

\* one call of a validation, at any log level
NextGeo ==
  \/ \E lat \in Latitudes, lng \in Longitudes : CallValidateCoordinates(lat, lng)
  \/ \E n \in BoundsLatitudes, s \in BoundsLatitudes,
        e \in BoundsLongitudes, w \in BoundsLongitudes :
        CallValidateBounds([north |-> n, south |-> s, east |-> e, west |-> w])
  \/ \E l \in LogLevels : SetLogLevel(l)

SpecGeo == Init /\ [][NextGeo]_vars

\* one call of normalizeLongitude
NextNorm ==
  \/ \E lng \in (-MaxLongitude)..MaxLongitude : CallNormalizeLongitude(lng)
  \/ NormalizeFirstLoop
  \/ NormalizeSecondLoop

\* a synchronous function runs to its end
SpecNorm ==
  /\ Init
  /\ [][NextNorm]_vars
  /\ WF_vars(NormalizeFirstLoop)
  /\ WF_vars(NormalizeSecondLoop)

(***************************************************************************)
(* Properties of waitForCondition                                          *)
(***************************************************************************)
Last(s) == s[Len(s)]
Elapsed(c) == endTime[c] - startTime[c]
NeverTrue(c) == \A k \in 1..Len(hist[c]) : hist[c][k] # "true"

\* C1: an exception thrown by the predicate never aborts the wait: the call
\* never rejects with the predicate's error, every throwing evaluation is
\* followed by a sleep like a false one, and a predicate that throws twice
\* and then returns true makes the call resolve.
C1_ThrowDoesNotAbort ==
  \A c \in Calls :
    /\ outcome[c] # "PredicateError"
    /\ (hist[c] # <<>> /\ Last(hist[c]) = "throws") => sleeps[c] = Len(hist[c])
    /\ hist[c] = <<"throws", "throws", "true">> => outcome[c] = "ok"

C1_Witness ==
  /\ hist[1] = <<"throws", "throws", "true">>
  /\ outcome[1] = "ok"
  /\ Elapsed(1) < timeout[1]

\* C2: every call evaluates the predicate at least once, and with
\* timeout = 0 exactly once, before it returns or fails.
C2_EvaluatedAtLeastOnce ==
  \A c \in Calls :
    pc[c] = "done" =>
      /\ evals[c] >= 1
      /\ timeout[c] = 0 => evals[c] = 1

\* C3: with interval > 0 a wait whose predicate never returns true ends with
\* TimeoutError (every call in flight ends), raised no earlier than timeout
\* after the start and, the evaluations taking no time, no later than
\* timeout + interval after it.
C3_Window(c) ==
  (/\ pc[c] = "done"
   /\ interval[c] > 0
   /\ NeverTrue(c)
   /\ outcome[c] # "SleepError")
  => /\ outcome[c] = "TimeoutError"
     /\ Elapsed(c) >= timeout[c]
     /\ evalTime[c] = 0 => Elapsed(c) <= timeout[c] + interval[c]

C4_ReturnsAtFirstTrue ==
  \A c \in Calls :
    /\ outcome[c] = "ok" => (hist[c] # <<>> /\ Last(hist[c]) = "true")
    /\ \A k \in 1..Len(hist[c]) :
         hist[c][k] = "true" =>
           /\ k = Len(hist[c])
           /\ pc[c] = "done"
           /\ outcome[c] = "ok"
           /\ sleeps[c] = k - 1

C4_Witness ==
  /\ hist[1] = <<"true">>
  /\ outcome[1] = "ok"
  /\ sleeps[1] = 0
  /\ Elapsed(1) = 0

C6_NonPositiveIntervalFailsFast ==
  \A c \in Calls :
    (pc[c] # "idle" /\ interval[c] <= 0 /\ now = startTime[c]) => evals[c] <= 1

(***************************************************************************)
(* Two calls in flight                                                     *)
(***************************************************************************)
\* waitForCondition run alone from elapsed time e, its predicate giving the
\* results h from evaluation k on, the rej-th sleep rejecting (0: none):
\* how it ends and the number of evaluations made
RECURSIVE SoloRun(_, _, _, _, _, _)
SoloRun(to, i, h, rej, e, k) ==
  IF ~(e < to) THEN [outcome |-> "TimeoutError", evals |-> k - 1]
  ELSE IF k > Len(h) THEN [outcome |-> "none", evals |-> k]
  ELSE IF h[k] = "true" THEN [outcome |-> "ok", evals |-> k]
  ELSE IF rej = k THEN [outcome |-> "SleepError", evals |-> k]
  ELSE SoloRun(to, i, h, rej, e + (IF i > 0 THEN i ELSE 0), k + 1)

Alone(c) ==
  SoloRun(timeout[c], interval[c], hist[c],
          IF outcome[c] = "SleepError" THEN sleeps[c] ELSE 0, 0, 1)

\* the calls that have pushed an entry onto the logger's list
LogWriters == {logs[k].message[2] : k \in 1..Len(logs)}

\* C7 amended: under every interleaving each call ends as it would alone,
\* after the same number of evaluations of its predicate; (the calls do share
\* the TestLogger singleton).
C7_SameAsAlone ==
  \A c \in Calls :
    pc[c] = "done" => Alone(c) = [outcome |-> outcome[c], evals |-> evals[c]]

\* C7 as stated: each call ends as it would alone, and the two calls read or
\* write no common mutable state.
C7_NoCommonState ==
  /\ C7_SameAsAlone
  /\ Cardinality(LogWriters) <= 1

C7_Witness ==
  /\ pc[1] = "done" /\ pc[2] = "done"
  /\ outcome[1] = "ok" /\ outcome[2] = "TimeoutError"
  /\ evals[1] = 2 /\ evals[2] = 3
  /\ startTime[1] < startTime[2]
  /\ endTime[1] > startTime[2]
  /\ LogWriters = {1, 2}

(***************************************************************************)
(* Properties of the coordinate helpers                                    *)
(***************************************************************************)
\* C8: validateCoordinates(lat, lng) returns a boolean (it does not throw),
\* true if and only if -90 <= lat <= 90 and -180 <= lng <= 180, the limits
\* included.
C8_ValidateCoordinates ==
  call.op = "validateCoordinates" =>
    /\ call.result \in BOOLEAN
    /\ call.result <=> (/\ -90 <= call.lat /\ call.lat <= 90
                        /\ -180 <= call.lng /\ call.lng <= 180)

C8_Witness ==
  /\ call.op = "validateCoordinates"
  /\ call.lat = 90
  /\ call.lng = 180
  /\ call.result = TRUE

\* C9: validateBounds(bounds) returns true if and only if north > south and
\* east > west, strictly, with north and south in [-90, 90] and east and west
\* in [-180, 180].
C9_ValidateBounds ==
  call.op = "validateBounds" =>
    LET b == call.bounds
    IN call.result <=> (/\ b.north > b.south
                        /\ b.east > b.west
                        /\ {b.north, b.south} \subseteq (-90)..90
                        /\ {b.east, b.west} \subseteq (-180)..180)

C9_Witness ==
  /\ call.op = "validateBounds"
  /\ call.bounds = [north |-> 10, south |-> 20, east |-> 10, west |-> 20]
  /\ call.result = FALSE

NextDMS ==
  \/ \E d \in DMSDecimals, isLongitude \in BOOLEAN, under \in BOOLEAN :
        CallToDMS(d, isLongitude, under)
  \/ CallFromDMS

SpecDMS == Init /\ [][NextDMS]_vars

(***************************************************************************)
(* Properties of toDMS / fromDMS                                           *)
(***************************************************************************)
\* |back / 360000 - decimal / 1000000| <= 0.0003, both sides times 9000000
WithinTolerance(back, decimal) == Abs(25 * back - 9 * decimal) <= 2700

\* C11: the value fromDMS returns for the degrees, minutes, seconds and
\* direction letter of toDMS(d, isLongitude) is within 0.0003 degrees of d;
\* it is negated (not above zero) with S and W, and not negated with N and E
C11_RoundTrip ==
  dms.pc = "back" =>
    /\ dms.components.direction \in {"S", "W"} => dms.back <= 0
    /\ dms.components.direction \in {"N", "E"} => dms.back >= 0
    /\ dms.components.direction \in {"S", "W"} <=> dms.decimal < 0
    /\ dms.components.direction \in {"E", "W"} <=> dms.isLongitude
    /\ WithinTolerance(dms.back, dms.decimal)

\* a western longitude whose seconds were rounded has gone round
C11_Witness ==
  /\ dms.pc = "back"
  /\ dms.components.direction = "W"
  /\ dms.decimal < 0
  /\ dms.back < 0
  /\ 25 * dms.back # 9 * dms.decimal

\* calculateDistance of two points, and of the same two points swapped
NextDistance ==
  \/ \E lat1 \in DistanceLatitudes, lng1 \in DistanceLongitudes,
        lat2 \in DistanceLatitudes, lng2 \in DistanceLongitudes :
        CallCalculateDistance(lat1, lng1, lat2, lng2)
  \/ CallCalculateDistanceBack

SpecDistance == Init /\ [][NextDistance]_vars

(***************************************************************************)
(* Properties of calculateDistance                                         *)
(***************************************************************************)
\* two results equal within 1e-9, which is below what the model resolves
Close(x, y) == ~x.nan /\ ~y.nan /\ x.value = y.value

\* C12: calculateDistance(A, B) equals calculateDistance(B, A) within 1e-9
\* for all points A and B, and calculateDistance(A, A) is 0
C12_SymmetricZeroDiagonal ==
  /\ dist.pc = "both" => Close(dist.forward, dist.backward)
  /\ (dist.pc # "idle" /\ dist.from = dist.to) =>
        Close(dist.forward, [nan |-> FALSE, value |-> 0])

\* one call of withRetry, with every ending of every call of the operation
NextRetry ==
  \/ \E maxRetries \in (-1)..MaxMaxRetries, initialDelay \in 0..MaxInitialDelay,
        backoffFactor \in {1, 2} :
        CallWithRetry(maxRetries, initialDelay, backoffFactor)
  \/ \E end \in OperationEnds : RetryOperationSettles(end)
  \/ RetryTimerFires

SpecRetry == Init /\ [][NextRetry]_vars

(***************************************************************************)
(* Properties of ErrorHandler.withRetry                                    *)
(***************************************************************************)
\* the endings after which withRetry tries again
Retryable == {"TimeoutError", "Error"}

\* C13: withRetry invokes the operation at most maxRetries + 1 times, one
\* attempt at a time; it returns the result of the first attempt that
\* succeeds and does not invoke the operation again; when every attempt
\* fails with a retryable error it has made maxRetries + 1 attempts and
\* fails with a TestError whose code is MAX_RETRIES_EXCEEDED
C13_WithRetry ==
  /\ retry.invocations <= IF retry.maxRetries + 1 > 0 THEN retry.maxRetries + 1 ELSE 0
  /\ retry.inFlight <= 1
  /\ retry.invocations = Len(retry.ends) + retry.inFlight
  /\ \A k \in 1..Len(retry.ends) :
       retry.ends[k] = "value" =>
         /\ k = Len(retry.ends)
         /\ retry.pc = "done"
         /\ retry.invocations = k
         /\ retry.result = Returned(k)
  /\ (/\ retry.pc = "done"
      /\ \A k \in 1..Len(retry.ends) : retry.ends[k] \in Retryable) =>
       /\ retry.invocations = (IF retry.maxRetries + 1 > 0 THEN retry.maxRetries + 1 ELSE 0)
       /\ ~retry.result.ok
       /\ retry.result.error.class = "TestError"
       /\ retry.result.error.code = "MAX_RETRIES_EXCEEDED"

\* a success on the third attempt, and a call that used up all its attempts
C13_Witness ==
  /\ retry.pc = "done"
  /\ retry.maxRetries = 2
  /\ retry.invocations = 3
  /\ retry.ends \in {<<"Error", "TimeoutError", "value">>,
                     <<"TimeoutError", "Error", "TimeoutError">>}

\* C14: when an attempt fails with a TestError whose isRetryable is false,
\* withRetry is done at once, throwing that same error: the operation is not
\* invoked again and no delay is waited after the failure
C14_NotRetryableRethrown ==
  \A k \in 1..Len(retry.ends) :
    retry.ends[k] = "MapLoadError" =>
      /\ retry.pc = "done"
      /\ k = Len(retry.ends)
      /\ retry.invocations = k
      /\ retry.delays = k - 1
      /\ retry.result = Thrown(Settled("MapLoadError", k).error)

\* the second attempt failed with a map load error, with attempts left
C14_Witness ==
  /\ retry.pc = "done"
  /\ retry.maxRetries = 3
  /\ retry.ends = <<"TimeoutError", "MapLoadError">>
  /\ retry.delays = 1

\* one operation under one or more nested withErrorHandling wrappers
NextHandling ==
  \/ \E depth \in 1..MaxDepth, innermost \in ErrorContexts :
        CallWithErrorHandling(depth, innermost)
  \/ \E end \in HandledEnds : HandledOperationSettles(end)
  \/ WrapperSettles

SpecHandling == Init /\ [][NextHandling]_vars

(***************************************************************************)
(* Properties of ErrorHandler.withErrorHandling                            *)
(***************************************************************************)
\* C15: withErrorHandling returns the operation's result on success; it
\* rethrows a TestError unchanged (the same error, so the same code and
\* isRetryable); it converts any other failure into a TestError with code
\* WRAPPED_ERROR and isRetryable = false; and nested wrappers end with the
\* same error as the innermost wrapper alone
C15_WithErrorHandling ==
  handling.pc = "done" =>
    /\ handling.operation.ok => handling.inner = handling.operation
    /\ (~handling.operation.ok /\ handling.operation.error.class = "TestError") =>
         handling.inner = handling.operation
    /\ (~handling.operation.ok /\ handling.operation.error.class # "TestError") =>
         /\ ~handling.inner.ok
         /\ handling.inner.error.class = "TestError"
         /\ handling.inner.error.code = "WRAPPED_ERROR"
         /\ ~handling.inner.error.isRetryable
    /\ handling.result = handling.inner

\* an Error went through two wrappers and was converted by the inner one
C15_Witness ==
  /\ handling.pc = "done"
  /\ handling.depth = 2
  /\ handling.end = "Error"
  /\ handling.result.error.code = "WRAPPED_ERROR"
  /\ handling.result.error.id = -1

\* the logger used on its own: any level, the console switched on and off
NextLogger ==
  \/ \E l \in LogLevels : SetLogLevel(l)
  \/ \E enabled \in BOOLEAN : SetConsoleOutput(enabled)
  \/ \E l \in LogLevels : CallLog(l)
  \/ ClearLogs

SpecLogger == Init /\ [][NextLogger]_vars

(***************************************************************************)
(* Properties of TestLogger                                                *)
(***************************************************************************)
\* the entries of the calls of cs whose level was at least the level in force
StoredOf(cs) ==
  LET kept == SelectSeq(cs, LAMBDA c : c.level >= c.inForce)
  IN  [i \in 1..Len(kept) |-> [level |-> kept[i].level, message |-> kept[i].message]]

\* C16: a call of log stores its entry if and only if its level is at least
\* the log level in force at the call, whatever the console switch; getLogs
\* returns, in call order, all the entries stored since the last clearLogs;
\* the console shows the stored entries of the calls made while it was on
C16_StoredIffAtLeastLevel ==
  /\ GetLogs = StoredOf(SubSeq(calls, clearedAt + 1, Len(calls)))
  /\ console = StoredOf(SelectSeq(calls, LAMBDA c : c.console))

\* with the console off, a call below the level was dropped and a later one
\* at the level stored
C16_Witness ==
  /\ Len(calls) = 2
  /\ ~calls[1].console /\ ~calls[2].console
  /\ calls[1].level < calls[1].inForce
  /\ calls[2].level = calls[2].inForce
  /\ Len(GetLogs) = 1
  /\ console = <<>>

\* a loaded map and one call of zoomIn or zoomOut
NextZoom ==
  \/ \E level \in MinZoom..MaxZoom : MapLoads(level)
  \/ \E direction \in {-1, 1}, times \in 0..MaxTimes : CallZoom(direction, times)
  \/ ReadZoom
  \/ ClickZoom
  \/ MapZooms
  \/ ZoomObserved
  \/ ZoomFails

SpecZoom == Init /\ [][NextZoom]_vars

(***************************************************************************)
(* Properties of zoomIn / zoomOut                                          *)
(***************************************************************************)
\* C17: when zoomIn(n) (direction 1) or zoomOut(n) (direction -1) completes
\* without error, the map's level is the level before the call plus or minus
\* n; and whenever a click after the first has been issued, the map has made
\* the change of every click before it
C17_ZoomByTimes ==
  /\ (zoom.pc = "done" /\ zoom.result.ok) =>
        /\ zoom.level = zoom.before + zoom.direction * zoom.times
        /\ zoom.requested = 0
  /\ zoom.clicks > 1 =>
        zoom.direction * (zoom.level - zoom.before) >= zoom.clicks - 1

\* zoomOut(2) completed after two clicks
C17_Witness ==
  /\ zoom.pc = "done"
  /\ zoom.result.ok
  /\ zoom.direction = -1
  /\ zoom.times = 2
  /\ zoom.clicks = 2
  /\ zoom.level = zoom.before - 2

\* one call of performCompleteMapTest, at any log level
NextService ==
  \/ CallPerformCompleteMapTest
  \/ \E center \in Centers : ServiceAwaitResolves(center)
  \/ \E end \in ServiceEnds : ServiceAwaitRejects(end)
  \/ \E l \in LogLevels : SetLogLevel(l)

SpecService == Init /\ [][NextService]_vars

(***************************************************************************)
(* Properties of performCompleteMapTest                                    *)
(***************************************************************************)
\* the calls of Awaited up to the k-th
AwaitedCalls(k) == [j \in 1..k |-> Awaited[j].call]

\* C18: performCompleteMapTest never throws; it returns success = true only
\* when every call of the five steps completed without error; when a call
\* fails, no later call is made and it returns success = false with the
\* failure's message
C18_NeverThrows ==
  service.pc = "done" =>
    /\ ~service.thrown
    /\ service.success =>
         /\ service.completed = AwaitedCalls(Len(Awaited))
         /\ service.failure = NoError
         /\ {Awaited[j].step : j \in 1..Len(Awaited)} =
              {TestsPerformed[j] : j \in 1..Len(TestsPerformed)}
    /\ service.failure # NoError =>
         /\ ~service.success
         /\ service.message = <<"Complete map test failed">> \o service.failure.message
         /\ \/ service.completed = AwaitedCalls(service.at - 1)
            \/ /\ service.completed = AwaitedCalls(service.at)
               /\ service.failure.code = "INVALID_COORDINATES"
    /\ service.success \/ service.failure # NoError

\* testZoomOperations timed out after four calls had completed
C18_Witness ==
  /\ service.pc = "done"
  /\ ~service.success
  /\ service.at = 5
  /\ service.failure.code = "TIMEOUT_ERROR"
  /\ Len(service.completed) = 4

\* one call of monitorTileRequests and the responses that follow it
NextTiles ==
  \/ CallMonitorTileRequests
  \/ \E url \in ResponseUrls, status \in ResponseStatuses : TileResponse(url, status)

SpecTiles == Init /\ [][NextTiles]_vars

(***************************************************************************)
(* Properties of monitorTileRequests                                       *)
(***************************************************************************)
\* C19: the success and failed fields of the object monitorTileRequests
\* returned are the numbers of tile responses with status 200 and with
\* another status that the page received after the call
C19_ReportsTileCounts ==
  tiles.pc = "monitoring" =>
    /\ tiles.returned.success = tiles.received.ok
    /\ tiles.returned.failed = tiles.received.other

\* the two implementations called with the same options and predicate
NextCompat ==
  \/ \E to \in Timeouts, i \in Intervals : CallBoth(to, i)
  \/ \E r \in PredicateResults, d \in EvalTimes : PredicateSettles(r, d)

SpecCompat == Init /\ [][NextCompat]_vars

(***************************************************************************)
(* Properties of the consolidated GISHelpers                               *)
(***************************************************************************)
BothDone == compat.legacy.pc = "done" /\ compat.consolidated.pc = "done"

\* the two runs ended alike: success, or a failure of the same kind, after
\* the same number of evaluations and at the same time
SameOutcome ==
  /\ compat.legacy.outcome = compat.consolidated.outcome
  /\ compat.legacy.evals = compat.consolidated.evals
  /\ compat.legacy.t = compat.consolidated.t

\* the predicate threw at an evaluation the legacy run made
LegacySawThrow ==
  \E k \in 1..compat.legacy.evals :
    k <= Len(compat.results) /\ compat.results[k] = "throws"

NextPerf ==
  \/ CallPerformPerformanceTest
  \/ \E d \in Durations, visible \in BOOLEAN : PerfAwaitResolves(d, visible)
  \/ PerfAwaitRejects

SpecPerf == Init /\ [][NextPerf]_vars

(***************************************************************************)
(* Properties of performPerformanceTest                                    *)
(***************************************************************************)
Measured(key) == key \in DOMAIN perf.operationTimes

ErrorEntries(c) ==
  {k \in 1..Len(logs) : logs[k].message = <<"Error checking", c>>}

\* the evaluations of call c's predicate that threw
ThrowingEvaluations(c) ==
  {k \in 1..Len(hist[c]) : hist[c][k] = "throws"}

\* C22: for each evaluation of the predicate that throws, one entry
\* describing the error has been recorded by the logger by the time the
\* evaluation has been dealt with, hence before the next evaluation or the
\* timeout failure
C22_EveryThrowLogged ==
  \A c \in Calls :
    Cardinality(ErrorEntries(c)) = Cardinality(ThrowingEvaluations(c))

\* one call of createNewProject or deleteProject, on a page whose layer
\* buttons change at any moment
NextProject ==
  \/ \E operation \in ProjectOperations : CallProjectOperation(operation)
  \/ \E end \in ClickEnds : ProjectClickSettles(end)
  \/ \E b \in LayerButtons, s \in ButtonStates : PageChanges(b, s)
  \/ ProjectTick
  \/ \E end \in WaitForFunctionEnds : WaitForFunctionSettles(end)

SpecProject == Init /\ [][NextProject]_vars

(***************************************************************************)
(* Properties of waitForProjectOperation                                   *)
(***************************************************************************)
Warned(operation) ==
  \E k \in 1..Len(logs) :
    /\ logs[k].level = WARN
    /\ logs[k].message =
         <<"Project operation may not have completed as expected", operation>>

\* C23: waitForProjectOperation never throws: when waitForFunction fails,
\* by its timeout or otherwise, a warning has been logged and the call has
\* returned normally, so a createNewProject or deleteProject whose click
\* succeeded returns normally whether or not the layer buttons reached the
\* awaited state.
C23_NeverThrows ==
  /\ project.waitEnd # "none" => project.waited.ok
  /\ project.waitEnd \in {"TimeoutError", "Error"} => Warned(project.operation)
  /\ (project.pc = "done" /\ project.clicked) => project.result.ok
  /\ (project.pc = "done" /\ ~project.clicked) => ~project.result.ok

\* the buttons never reached the awaited state, the timeout passed, and the
\* project operation returned normally
C23_Witness ==
  /\ project.pc = "done"
  /\ project.waitEnd = "TimeoutError"
  /\ ~project.satisfied
  /\ project.result.ok

\* one call of validateMapState, the page answering anything
NextMapState ==
  \/ CallValidateMapState
  \/ \E v \in MapStateAnswers(mapState.pc) : MapStateAwaitResolves(v)
  \/ MapStateAwaitRejects

SpecMapState == Init /\ [][NextMapState]_vars

(***************************************************************************)
(* Properties of validateMapState                                          *)
(***************************************************************************)
Has(list, text) == \E k \in 1..Len(list) : list[k] = text

\* C24: validateMapState never throws, and whenever it has returned isValid
\* is true exactly when the errors list is empty: without a map instance it
\* returns after the first read with the single error 'Map instance not
\* found'; after a complete run the errors hold 'Invalid zoom level',
\* 'Invalid center coordinates' and 'Invalid map bounds' exactly for the
\* values read that are invalid, and nothing else, whatever the warnings.
C24_ValidateMapState ==
  mapState.pc = "done" =>
    /\ mapState.thrown = NoError
    /\ mapState.isValid <=> Len(mapState.errors) = 0
    /\ (~mapState.mapExists /\ mapState.rejected = "none") =>
         /\ mapState.errors = <<"Map instance not found">>
         /\ mapState.warnings = <<>>
    /\ mapState.completed =>
         /\ Has(mapState.errors, "Invalid zoom level")
              <=> ~ValidateZoomLevel(mapState.zoom)
         /\ Has(mapState.errors, "Invalid center coordinates")
              <=> ~ValidateCoordinates(mapState.center.lat, mapState.center.lng)
         /\ Has(mapState.errors, "Invalid map bounds")
              <=> ~ValidateBounds(mapState.bounds)
         /\ \A k \in 1..Len(mapState.errors) :
              mapState.errors[k] \in {"Invalid zoom level",
                                      "Invalid center coordinates",
                                      "Invalid map bounds"}
         /\ Has(mapState.warnings, "No tiles found") <=> mapState.tileCount = 0

\* a complete run on a valid map without tiles, animating: two warnings,
\* no error, isValid true
C24_Witness ==
  /\ mapState.pc = "done"
  /\ mapState.completed
  /\ Len(mapState.warnings) = 2
  /\ mapState.errors = <<>>
  /\ mapState.isValid

(***************************************************************************)
(* The delays of ErrorHandler.withRetry, and ErrorHandler.isRetryable      *)
(***************************************************************************)
RECURSIVE Power(_, _)
Power(b, n) == IF n = 0 THEN 1 ELSE b * Power(b, n - 1)

\* C25: the wait before the k-th retry is initialDelay x backoffFactor^(k-1);
\* an attempt is in flight only when every wait before it has finished, one
\* wait after each earlier attempt; and no wait follows the final failed
\* attempt: a wait is started only with attempts left, and a call that is
\* done has waited once less than it has attempted
C25_ExponentialBackoff ==
  /\ \A k \in 1..Len(retry.waits) :
       retry.waits[k] = retry.initialDelay * Power(retry.backoffFactor, k - 1)
  /\ Len(retry.waits) = retry.delays
  /\ retry.pc = "operation" =>
       /\ retry.invocations = Len(retry.waits) + 1
       /\ Len(retry.ends) = Len(retry.waits)
  /\ retry.pc = "delay" =>
       /\ retry.inFlight = 0
       /\ retry.attempt < retry.maxRetries
       /\ Len(retry.waits) = Len(retry.ends)
       /\ retry.delay = Last(retry.waits)
  /\ (retry.pc = "done" /\ Len(retry.ends) > 0) =>
       Len(retry.waits) = Len(retry.ends) - 1

\* every attempt of four failed: waits of 1, 2 and 4, none after the last
C25_Witness ==
  /\ retry.pc = "done"
  /\ retry.maxRetries = 3
  /\ Len(retry.ends) = 4
  /\ retry.waits = <<1, 2, 4>>
  /\ retry.result.error.code = "MAX_RETRIES_EXCEEDED"

\* withRetry goes on to another attempt after its k-th attempt
TriesAgainAfter(k) ==
  \/ Len(retry.ends) > k
  \/ Len(retry.ends) = k /\ retry.pc = "delay"

\* C27: after a failed attempt that is not the last one, withRetry makes
\* another attempt if and only if isRetryable is true of the attempt's error
C27_AgreesWithIsRetryable ==
  \A k \in 1..Len(retry.ends) :
    (retry.ends[k] # "value" /\ k - 1 < retry.maxRetries) =>
      (TriesAgainAfter(k) <=> IsRetryable(Settled(retry.ends[k], k).error))

\* one call of clickElement or clickElementIfEnabled, the page enabling and
\* disabling the element at any moment
NextClick ==
  \/ \E method \in ClickMethods : CallClick(method)
  \/ \E what \in {"enabled", "visible"} : ElementChanges(what)
  \/ ClickAwaitResolves
  \/ ClickAwaitRejects

SpecClick == Init /\ [][NextClick]_vars

(***************************************************************************)
(* Properties of clickElement and clickElementIfEnabled                    *)
(***************************************************************************)
\* C26: no click is issued on an element that is disabled at that moment;
\* a call that ended on an element it found disabled, at its isEnabled
\* check or at its click, has failed with ElementNotEnabledError
\* (clickElement) or returned false (clickElementIfEnabled); and
\* clickElementIfEnabled returns true exactly when it clicked
C26_NeverClicksDisabled ==
  /\ ~click.clickedDisabled
  /\ (click.pc = "done" /\ click.disabledAtEnd) =>
       IF click.method = "clickElement"
         THEN /\ ~click.result.ok
              /\ click.result.error.code = "ELEMENT_NOT_ENABLED"
         ELSE /\ click.result.ok
              /\ click.result.value = "false"
  /\ (click.pc = "done" /\ click.method = "clickElementIfEnabled") =>
       ((click.result.ok /\ click.result.value = "true") <=> click.clicked)

\* one call of orchestrateLayerTest, the page answering anything
NextLayer ==
  \/ \E layerType \in LayerTypes : CallOrchestrateLayerTest(layerType)
  \/ LayerButtonChanges
  \/ \E v \in BOOLEAN : LayerAwaitResolves(v)
  \/ LayerAwaitRejects

SpecLayer == Init /\ [][NextLayer]_vars

(***************************************************************************)
(* Properties of orchestrateLayerTest                                      *)
(***************************************************************************)
\* C28: at every moment, and so in every result returned, visible implies
\* created and interactive implies created; created is true only if the
\* button was read enabled, was clicked and the map-operation wait
\* completed; a button read disabled makes the method return without a
\* click, with created false and one error; the method never throws
C28_LayerTestResult ==
  /\ layer.result.visible => layer.result.created
  /\ layer.result.interactive => layer.result.created
  /\ layer.result.created =>
       layer.isEnabled = "true" /\ layer.clicked /\ layer.waited
  /\ ~layer.clickedDisabled
  /\ layer.isEnabled = "false" =>
       /\ layer.pc = "done"
       /\ ~layer.clicked
       /\ ~layer.result.created
       /\ Len(layer.result.errors) = 1
  /\ layer.thrown = NoError
  /\ layer.caught => layer.pc = "done" /\ Len(layer.result.errors) = 1

\* a layer created and visible but not interactive, on a button that was
\* disabled again after the click
C28_Witness ==
  /\ layer.pc = "done"
  /\ layer.result.created
  /\ layer.result.visible
  /\ ~layer.result.interactive
  /\ layer.result.errors = <<>>
  /\ ~layer.enabled

\* C29: the minutes toDMS produces are in 0..59 and its seconds, here in
\* hundredths, are at least 0 and strictly less than 60
C29_MinutesSecondsInRange ==
  dms.pc # "idle" =>
    /\ dms.components.minutes \in 0..59
    /\ dms.components.seconds >= 0
    /\ dms.components.seconds < 60 * 100

====
